---- MODULE Spec2Model ----
(***************************************************************************)
(* The cricket board game rules engine: Game (playTurn, handleCollisions,  *)
(* resolveSquareEvent, checkGameOver, advanceToNextPlayer) and Player      *)
(* (addScore, takeWicket, returnTokenToHome, decrementTurn).               *)
(*                                                                         *)
(* The repository holds two copies of the engine: the shared one           *)
(* (supabase/functions/_shared/game.ts) and the client one (src/game.tsx). *)
(* The field `engine` of a game says which copy runs it.                   *)
(***************************************************************************)
EXTENDS Integers, Sequences, FiniteSets, TLC

\* players, currentPlayerIndex, isGameOver, gameMode, settings: the fields
\*   of Game (currentPlayerIndex is 0-based as in the code; players is a
\*   sequence, so the current player is players[currentPlayerIndex + 1]).
\*   A player carries id, color, homeBaseIndex, score, wickets,
\*   turnsRemaining, isAllOut and its two tokens; name and isAI play no
\*   part in the rules and are left out.
\* engine: which copy of the engine runs the game.  The client copy has no
\*   Player class of its own among the sources; it runs on the shared one.
\* last: the call that produced the current state (operation, arguments),
\*   the game it was made on and whether the call threw; with them the
\*   history of the tokens the properties refer to (see TripStart).
\* moves: number of calls made since the starting state.
\* copy: the game made from this one by Game.fromJSON(game.toJSON()), if one
\*   has been made (<<>> if none): the copy itself, whether its players share
\*   their tokens arrays with this game's players, and the playTurn calls
\*   made on either game since.
\* pathCall: the last call of getMovementPath made from outside playTurn, with
\*   its result (<<>> if none).
VARIABLES players, currentPlayerIndex, isGameOver, gameMode, settings, engine,
          last, moves, copy, pathCall

vars == <<players, currentPlayerIndex, isGameOver, gameMode, settings, engine,
          last, moves, copy, pathCall>>

(***************************************************************************)
(* Constants of the program                                                *)
(***************************************************************************)
BOARD_SIZE == 48

MAX_WICKETS == 10

T20Turns == 20

FiftyFiftyTurns == 50

\* Number of playTurn / advanceToNextPlayer calls explored after Init.
MaxMoves == 2

\* Number of playTurn calls explored on a deserialized copy.
MaxCopyMoves == 1

\* Resolution of the numbers Math.random() returns
RandomGrain == 12

Clockwise == "Green"
AntiClockwise == "Red"

Direction == {Clockwise, AntiClockwise}

SafeZone == "SafeZone"
Runs == "Runs"
DotBall == "DotBall"
Wicket == "Wicket"
Extra == "Extra"

SquareType == {SafeZone, Runs, DotBall, Wicket, Extra}

Blue == "Blue"
Yellow == "Yellow"
Green == "Green"
Purple == "Purple"

T20 == "T20"
FiftyFifty == "50-50"
Test == "Test"

GameMode == {T20, FiftyFifty, Test}

Shared == "shared"
Client == "client"

\* turnsRemaining: number | null.  null is <<>>, the number n is <<n>>.
NullTurns == <<>>

NoCopy == <<>>

NoPath == <<>>

Turns(n) == <<n>>

(***************************************************************************)
(* Board layout.  boardLayout.ts is not among the sources; the layout is   *)
(* taken from the specification: 48 squares, the four home bases are       *)
(* SafeZone squares, every other square is Runs (with a value), DotBall,   *)
(* Wicket or Extra.  One quarter of the ring, repeated four times.         *)
(***************************************************************************)
Sq(t, v) == [type |-> t, value |-> v]

QuarterLayout ==
    << Sq(SafeZone, 0), Sq(Runs, 1), Sq(DotBall, 0), Sq(Runs, 2),
       Sq(Wicket, 0),   Sq(Runs, 4), Sq(Extra, 0),   Sq(Runs, 3),
       Sq(Wicket, 0),   Sq(Runs, 6), Sq(DotBall, 0), Sq(Extra, 0) >>

boardLayout == [i \in 0..(BOARD_SIZE - 1) |-> QuarterLayout[(i % Len(QuarterLayout)) + 1]]

(***************************************************************************)
(* PLAYER_CONFIG: home base of each colour                                 *)
(***************************************************************************)
PLAYER_CONFIG(color) ==
    CASE color = Blue   -> [homeBaseIndex |-> 0]
      [] color = Yellow -> [homeBaseIndex |-> 12]
      [] color = Green  -> [homeBaseIndex |-> 24]
      [] color = Purple -> [homeBaseIndex |-> 36]

(***************************************************************************)
(* Player                                                                  *)
(***************************************************************************)
NewPlayer(id, color, homeBaseIndex, initialTurns) ==
    [ id |-> id, color |-> color, homeBaseIndex |-> homeBaseIndex,
      score |-> 0, wickets |-> 0, turnsRemaining |-> initialTurns,
      isAllOut |-> FALSE,
      tokens |-> << [id |-> 1, positionIndex |-> homeBaseIndex, level |-> 1],
                    [id |-> 2, positionIndex |-> homeBaseIndex, level |-> 1] >> ]

addScore(p, runs) == [p EXCEPT !.score = @ + runs]

\* Faulty variant of takeWicket: the all-out test is off by one.
takeWicket_OffByOne(p) ==
    LET w == p.wickets + 1
    IN  [p EXCEPT !.wickets = w,
                  !.isAllOut = IF w > MAX_WICKETS THEN TRUE ELSE @]

takeWicket(p) ==
    LET w == p.wickets + 1
    IN  [p EXCEPT !.wickets = w,
                  !.isAllOut = IF w >= MAX_WICKETS THEN TRUE ELSE @]

\* tokens.find(t => t.id === tokenId): index of the first token with that id, 0 if none
FindToken(p, tokenId) ==
    IF \E k \in 1..Len(p.tokens) : p.tokens[k].id = tokenId
    THEN CHOOSE k \in 1..Len(p.tokens) :
            /\ p.tokens[k].id = tokenId
            /\ \A j \in 1..(k - 1) : p.tokens[j].id # tokenId
    ELSE 0

\* Faulty variant of returnTokenToHome: the level is not reset.
returnTokenToHome_KeepsLevel(p, tokenId) ==
    LET k == FindToken(p, tokenId)
    IN  IF k # 0
        THEN [p EXCEPT !.tokens[k].positionIndex = p.homeBaseIndex]
        ELSE p

returnTokenToHome(p, tokenId) ==
    LET k == FindToken(p, tokenId)
    IN  IF k # 0
        THEN [p EXCEPT !.tokens[k].positionIndex = p.homeBaseIndex,
                       !.tokens[k].level = 1]
        ELSE p

decrementTurn(p) ==
    IF p.turnsRemaining # NullTurns
    THEN [p EXCEPT !.turnsRemaining = Turns(@[1] - 1)]
    ELSE p

(***************************************************************************)
(* Game: construction                                                      *)
(***************************************************************************)
getInitialTurnsForMode(mode) ==
    CASE mode = T20        -> Turns(T20Turns)
      [] mode = FiftyFifty -> Turns(FiftyFiftyTurns)
      [] mode = Test       -> NullTurns

RECURSIVE initializePlayers(_, _, _)
initializePlayers(playerColors, index, initialTurns) ==
    IF index > Len(playerColors) THEN <<>>
    ELSE << NewPlayer(index, playerColors[index],
                      PLAYER_CONFIG(playerColors[index]).homeBaseIndex, initialTurns) >>
         \o initializePlayers(playerColors, index + 1, initialTurns)

NewGame(mode, playerColors, gameSettings, eng) ==
    [ players |-> initializePlayers(playerColors, 1, getInitialTurnsForMode(mode)),
      currentPlayerIndex |-> 0,
      isGameOver |-> FALSE,
      gameMode |-> mode,
      settings |-> gameSettings,
      engine |-> eng ]

getCurrentPlayer(g) == g.players[g.currentPlayerIndex + 1]

\* Faulty variant of advanceToNextPlayer: an all-out player is passed over
advanceToNextPlayer_SkipsAllOut(g) ==
    LET n == Len(g.players)
        next == (g.currentPlayerIndex + 1) % n
    IN  [g EXCEPT !.currentPlayerIndex =
            IF g.players[next + 1].isAllOut THEN (next + 1) % n ELSE next]

advanceToNextPlayer(g) ==
    [g EXCEPT !.currentPlayerIndex = (g.currentPlayerIndex + 1) % Len(g.players)]

(***************************************************************************)
(* Movement Engine                                                         *)
(***************************************************************************)
RECURSIVE MovementLoop(_, _, _, _)
MovementLoop(currentPosition, step, i, movement) ==
    IF i < movement
    THEN LET next == (currentPosition + step + BOARD_SIZE) % BOARD_SIZE
         IN  <<next>> \o MovementLoop(next, step, i + 1, movement)
    ELSE <<>>

\* Faulty variant of getMovementPath: the direction of the dice is ignored,
\* every path runs clockwise.
getMovementPath_AlwaysClockwise(startPosition, diceResult) ==
    MovementLoop(startPosition, 1, 0, diceResult.movement)

getMovementPath(startPosition, diceResult) ==
    LET step == IF diceResult.direction = Clockwise THEN 1 ELSE -1
    IN  MovementLoop(startPosition, step, 0, diceResult.movement)

\* Faulty variant of getReturnPath: with both distances equal the path runs
\* anti-clockwise
getReturnPath_TieAntiClockwise(g, startPosition, homeBaseIndex) ==
    LET clockwiseDistance == (homeBaseIndex - startPosition + BOARD_SIZE) % BOARD_SIZE
        antiClockwiseDistance == (startPosition - homeBaseIndex + BOARD_SIZE) % BOARD_SIZE
    IN  IF ~g.settings.allowAntiClockwise
        THEN MovementLoop(startPosition, -1, 0, antiClockwiseDistance)
        ELSE IF clockwiseDistance < antiClockwiseDistance
             THEN MovementLoop(startPosition, 1, 0, clockwiseDistance)
             ELSE MovementLoop(startPosition, -1, 0, antiClockwiseDistance)

\* getReturnPath of game g
getReturnPath(g, startPosition, homeBaseIndex) ==
    IF ~g.settings.allowAntiClockwise
    THEN LET antiClockwiseDistance ==
                 (startPosition - homeBaseIndex + BOARD_SIZE) % BOARD_SIZE
         IN  MovementLoop(startPosition, -1, 0, antiClockwiseDistance)
    ELSE LET clockwiseDistance ==
                 (homeBaseIndex - startPosition + BOARD_SIZE) % BOARD_SIZE
             antiClockwiseDistance ==
                 (startPosition - homeBaseIndex + BOARD_SIZE) % BOARD_SIZE
         IN  IF clockwiseDistance <= antiClockwiseDistance
             THEN MovementLoop(startPosition, 1, 0, clockwiseDistance)
             ELSE MovementLoop(startPosition, -1, 0, antiClockwiseDistance)

Includes(path, x) == \E i \in 1..Len(path) : path[i] = x

(***************************************************************************)
(* rollDice: the dice results it can return under the given settings       *)
(***************************************************************************)
\* Math.random() returns a number of [0, 1): the draw n stands for the
\* number n / RandomGrain
Randoms == 0..(RandomGrain - 1)

\* Faulty variant of rollDiceWith: the direction is drawn whatever the setting
rollDiceWith_IgnoresSetting(gameSettings, r1, r2) ==
    [ movement |-> ((r1 * 6) \div RandomGrain) + 1,
      direction |-> IF 2 * r2 < RandomGrain THEN AntiClockwise ELSE Clockwise ]

\* rollDice with the two numbers Math.random() returns to it
rollDiceWith(gameSettings, r1, r2) ==
    [ movement |-> ((r1 * 6) \div RandomGrain) + 1,
      direction |-> IF gameSettings.allowAntiClockwise /\ 2 * r2 < RandomGrain
                    THEN AntiClockwise ELSE Clockwise ]

rollDice(gameSettings) ==
    { rollDiceWith(gameSettings, r1, r2) : r1 \in Randoms, r2 \in Randoms }

(***************************************************************************)
(* Collision Resolver                                                      *)
(***************************************************************************)
\* playSound(...).  The shared engine calls playSound without importing or
\* declaring it: the call throws a ReferenceError and the method stops
\* there, with everything done so far kept.  The client engine has no such
\* call.
PlaySoundThrows(g) == g.engine = Shared

\* Bonus for one kill on a Runs square: the shared engine awards the square's
\* value, the client engine twice the value.
KillBonus(g, landingSquare) ==
    IF g.engine = Shared THEN landingSquare.value ELSE landingSquare.value * 2

\* Faulty variant of the forEach body: the kill bonus is taken out of the
\* victim's score.
CollideToken_BonusFromVictim(c, a, atk, v, k, position, landingSquare) ==
    LET g == c.g
        victimToken == g.players[v].tokens[k]
    IN  IF c.threw THEN c
        ELSE IF victimToken.positionIndex = position
        THEN IF PlaySoundThrows(g)
             THEN [g |-> g, collisionOccurred |-> TRUE, threw |-> TRUE]
             ELSE
             LET victimLevel == victimToken.level
                 g1 == [g EXCEPT !.players[v] =
                            returnTokenToHome(takeWicket(@), victimToken.id)]
                 g2 == IF g1.settings.stealLevelOnKill
                          /\ victimLevel > g1.players[a].tokens[atk].level
                       THEN [g1 EXCEPT !.players[a].tokens[atk].level = victimLevel]
                       ELSE g1
                 g3 == IF landingSquare.type = Runs
                       THEN [g2 EXCEPT !.players[a] =
                                addScore(@, KillBonus(g2, landingSquare)),
                                       !.players[v] =
                                addScore(@, 0 - KillBonus(g2, landingSquare))]
                       ELSE g2
             IN  [g |-> g3, collisionOccurred |-> TRUE, threw |-> FALSE]
        ELSE c

\* Body of victim.tokens.forEach for the victim's k-th token.  c is the
\* running triple (game, collisionOccurred, threw); a / atk index the
\* attacker and the attacking token.  In the shared engine the body throws
\* at playSound('collision'), after collisionOccurred = true and before the
\* victim's wicket; once it has thrown, no later body runs.
CollideToken(c, a, atk, v, k, position, landingSquare) ==
    LET g == c.g
        victimToken == g.players[v].tokens[k]
    IN  IF c.threw THEN c
        ELSE IF victimToken.positionIndex = position
        THEN IF PlaySoundThrows(g)
             THEN [g |-> g, collisionOccurred |-> TRUE, threw |-> TRUE]
             ELSE
             LET victimLevel == victimToken.level
                 g1 == [g EXCEPT !.players[v] =
                            returnTokenToHome(takeWicket(@), victimToken.id)]
                 g2 == IF g1.settings.stealLevelOnKill
                          /\ victimLevel > g1.players[a].tokens[atk].level
                       THEN [g1 EXCEPT !.players[a].tokens[atk].level = victimLevel]
                       ELSE g1
                 g3 == IF landingSquare.type = Runs
                       THEN [g2 EXCEPT !.players[a] =
                                addScore(@, KillBonus(g2, landingSquare))]
                       ELSE g2
             IN  [g |-> g3, collisionOccurred |-> TRUE, threw |-> FALSE]
        ELSE c

RECURSIVE CollideTokens(_, _, _, _, _, _, _)
CollideTokens(c, a, atk, v, k, position, landingSquare) ==
    IF k > Len(c.g.players[v].tokens) THEN c
    ELSE CollideTokens(CollideToken(c, a, atk, v, k, position, landingSquare),
                       a, atk, v, k + 1, position, landingSquare)

\* victim.tokens.filter(t => t.positionIndex === position).length
TokensOnSquare(p, position) ==
    Cardinality({k \in 1..Len(p.tokens) : p.tokens[k].positionIndex = position})

\* Fortress test of the shared and client engines
IsFortress(g, v, position) ==
    /\ g.settings.killRule = "fortress"
    /\ TokensOnSquare(g.players[v], position) >= 2

\* Body of this.players.forEach for the v-th player
CollideVictim(c, a, atk, v, position, landingSquare) ==
    IF c.threw THEN c
    ELSE IF c.g.players[v].id = c.g.players[a].id THEN c
    ELSE IF IsFortress(c.g, v, position) THEN c
    ELSE CollideTokens(c, a, atk, v, 1, position, landingSquare)

RECURSIVE CollideVictims(_, _, _, _, _, _)
CollideVictims(c, a, atk, v, position, landingSquare) ==
    IF v > Len(c.g.players) THEN c
    ELSE CollideVictims(CollideVictim(c, a, atk, v, position, landingSquare),
                        a, atk, v + 1, position, landingSquare)

\* Faulty variant of handleCollisions: the Safe Zone test is missing.
handleCollisions_NoSafeZone(g, a, attackingTokenId, position) ==
    CollideVictims([g |-> g, collisionOccurred |-> FALSE, threw |-> FALSE], a,
                   FindToken(g.players[a], attackingTokenId),
                   1, position, boardLayout[position])

\* a: index of the attacker in players (1-based); result: the game after the
\* captures, whether a collision occurred, and whether the method threw
handleCollisions(g, a, attackingTokenId, position) ==
    LET landingSquare == boardLayout[position]
    IN  IF landingSquare.type = SafeZone
        THEN [g |-> g, collisionOccurred |-> FALSE, threw |-> FALSE]
        ELSE CollideVictims([g |-> g, collisionOccurred |-> FALSE, threw |-> FALSE], a,
                            FindToken(g.players[a], attackingTokenId),
                            1, position, landingSquare)

(***************************************************************************)
(* Square-Event Resolver                                                   *)
(***************************************************************************)
\* result: the game after the event, whether the player gets another turn,
\* and whether the method threw.  In the shared engine it throws at
\* playSound: on a Runs square of value above 3 after the score, on a Wicket
\* square after the wicket and before the return to the base, on an Extra
\* square after the score.
resolveSquareEvent(g, a, tokenId, square) ==
    LET k == FindToken(g.players[a], tokenId)
    IN  IF k = 0 THEN [g |-> g, getsAnotherTurn |-> FALSE, threw |-> FALSE]
        ELSE LET tokenLevel == g.players[a].tokens[k].level
                 extraRuns == tokenLevel
             IN  CASE square.type = Runs ->
                        [g |-> [g EXCEPT !.players[a] = addScore(@, square.value * tokenLevel)],
                         getsAnotherTurn |-> FALSE,
                         threw |-> square.value > 3 /\ PlaySoundThrows(g)]
                   [] square.type = Wicket ->
                        IF PlaySoundThrows(g)
                        THEN [g |-> [g EXCEPT !.players[a] = takeWicket(@)],
                              getsAnotherTurn |-> FALSE, threw |-> TRUE]
                        ELSE [g |-> [g EXCEPT !.players[a] =
                                        returnTokenToHome(takeWicket(@), tokenId)],
                              getsAnotherTurn |-> FALSE, threw |-> FALSE]
                   [] square.type = Extra ->
                        IF extraRuns > 0 /\ PlaySoundThrows(g)
                        THEN [g |-> [g EXCEPT !.players[a] = addScore(@, extraRuns)],
                              getsAnotherTurn |-> FALSE, threw |-> TRUE]
                        ELSE [g |-> [g EXCEPT !.players[a] = addScore(@, extraRuns)],
                              getsAnotherTurn |-> TRUE, threw |-> FALSE]
                   [] OTHER -> [g |-> g, getsAnotherTurn |-> FALSE, threw |-> FALSE]

(***************************************************************************)
(* Game-over evaluation                                                    *)
(***************************************************************************)
Max(S) == CHOOSE x \in S : \A y \in S : y <= x

IsFinished(p) == p.turnsRemaining = Turns(0) \/ p.isAllOut

HardStop(g) ==
    IF g.gameMode = Test
    THEN \A i \in 1..Len(g.players) : g.players[i].isAllOut
    ELSE \A i \in 1..Len(g.players) : IsFinished(g.players[i])

\* Faulty variant of checkGameOver: the chase ends the game as soon as the
\* last player has drawn level with the top score.
checkGameOverShared_ChaseOnTie(g) ==
    IF HardStop(g) THEN [g EXCEPT !.isGameOver = TRUE]
    ELSE LET allOut == {i \in 1..Len(g.players) : g.players[i].isAllOut}
             alive == {i \in 1..Len(g.players) : ~g.players[i].isAllOut}
         IN  IF Cardinality(allOut) = Len(g.players) - 1
             THEN IF alive = {} THEN g
                  ELSE LET lastPlayer == g.players[CHOOSE i \in alive : \A j \in alive : i <= j]
                           topScoreToBeat == Max({0} \cup {g.players[i].score : i \in allOut})
                       IN  IF lastPlayer.score >= topScoreToBeat
                           THEN [g EXCEPT !.isGameOver = TRUE]
                           ELSE g
             ELSE g

\* checkGameOver of the shared engine
checkGameOverShared(g) ==
    IF HardStop(g) THEN [g EXCEPT !.isGameOver = TRUE]
    ELSE LET allOut == {i \in 1..Len(g.players) : g.players[i].isAllOut}
             alive == {i \in 1..Len(g.players) : ~g.players[i].isAllOut}
         IN  IF Cardinality(allOut) = Len(g.players) - 1
             THEN IF alive = {} THEN g
                  ELSE LET lastPlayer == g.players[CHOOSE i \in alive : \A j \in alive : i <= j]
                           topScoreToBeat == Max({0} \cup {g.players[i].score : i \in allOut})
                       IN  IF lastPlayer.score > topScoreToBeat
                           THEN [g EXCEPT !.isGameOver = TRUE]
                           ELSE g
             ELSE g

\* checkGameOver of the client engine
checkGameOverClient(g) == [g EXCEPT !.isGameOver = HardStop(g)]

checkGameOver(g) ==
    IF g.engine = Shared THEN checkGameOverShared(g) ELSE checkGameOverClient(g)

\* The player printGameSummary names as winner: the first of the players
\* sorted by score, highest first (the sort is stable: among equal scores
\* the player that comes first in players).  Result: index in players.
printGameSummaryWinner(g) ==
    CHOOSE i \in 1..Len(g.players) :
        /\ \A j \in 1..Len(g.players) : g.players[j].score <= g.players[i].score
        /\ \A j \in 1..(i - 1) : g.players[j].score < g.players[i].score

(***************************************************************************)
(* Turn Controller                                                         *)
(***************************************************************************)
EndTurn(g, a) == advanceToNextPlayer([g EXCEPT !.players[a] = decrementTurn(@)])

\* Shared engine, the turn flow after the square event ev: a kill ends the
\* turn, otherwise an extra turn keeps it.  Nothing of it is reached when
\* the square event threw.
TurnEndShared(aKillHappened, ev, a) ==
    IF ev.threw THEN [g |-> ev.g, threw |-> TRUE]
    ELSE [g |-> IF aKillHappened THEN EndTurn(ev.g, a)
                ELSE IF ev.getsAnotherTurn THEN ev.g
                ELSE EndTurn(ev.g, a),
          threw |-> FALSE]

\* Client engine, the turn flow after the square event ev
TurnEndClient(ev, a) ==
    IF ev.threw THEN [g |-> ev.g, threw |-> TRUE]
    ELSE [g |-> IF ev.getsAnotherTurn THEN ev.g ELSE EndTurn(ev.g, a),
          threw |-> FALSE]

\* Shared engine, after the token has moved: collisions, then ALWAYS the
\* square event, then the turn flow.  A throw in one of the two methods
\* ends playTurn there.  Result: the game and whether playTurn threw.
TurnFlowShared(g, a, tokenId, newPosition) ==
    LET col == handleCollisions(g, a, tokenId, newPosition)
    IN  IF col.threw THEN [g |-> col.g, threw |-> TRUE]
        ELSE TurnEndShared(col.collisionOccurred,
                           resolveSquareEvent(col.g, a, tokenId, boardLayout[newPosition]),
                           a)

\* Client engine: the square event is resolved only when no kill happened.
TurnFlowClient(g, a, tokenId, newPosition) ==
    LET col == handleCollisions(g, a, tokenId, newPosition)
    IN  IF col.threw THEN [g |-> col.g, threw |-> TRUE]
        ELSE IF col.collisionOccurred THEN [g |-> EndTurn(col.g, a), threw |-> FALSE]
        ELSE TurnEndClient(resolveSquareEvent(col.g, a, tokenId, boardLayout[newPosition]),
                           a)

\* Faulty variant of the lap detection: only the destination is compared
\* with the home base, so passing through the base is missed.
DidLevelUp_DestinationOnly(movementPath, homeBaseIndex, oldPosition) ==
    movementPath[Len(movementPath)] = homeBaseIndex /\ oldPosition # homeBaseIndex

\* didLevelUp of playTurn
DidLevelUp(movementPath, homeBaseIndex, oldPosition) ==
    Includes(movementPath, homeBaseIndex) /\ oldPosition # homeBaseIndex

\* The part of playTurn from the lap detection to the new position: the game
\* with the moved token levelled up (if due) and placed on the destination.
\* In the shared engine a level-up is followed by playSound('levelUp'), which
\* throws before the token is given its new position.
MoveToken(g, a, k, diceResult) ==
    LET player == g.players[a]
        oldPosition == player.tokens[k].positionIndex
        movementPath == getMovementPath(oldPosition, diceResult)
        newPosition == movementPath[Len(movementPath)]
        didLevelUp == DidLevelUp(movementPath, player.homeBaseIndex, oldPosition)
        levelled == [g EXCEPT !.players[a].tokens[k].level = IF didLevelUp THEN @ + 1 ELSE @]
    IN  IF didLevelUp /\ PlaySoundThrows(g)
        THEN [g |-> levelled, threw |-> TRUE]
        ELSE [g |-> [levelled EXCEPT !.players[a].tokens[k].positionIndex = newPosition],
              threw |-> FALSE]

\* The end of playTurn: checkGameOver is reached only when nothing threw
FinishTurn(flowed) ==
    IF flowed.threw THEN flowed
    ELSE [g |-> checkGameOver(flowed.g), threw |-> FALSE]

\* playTurn after the lap detection and the move of the k-th token of the
\* current player a
ContinueTurn(moved, a, k, tokenIdToMove) ==
    IF moved.threw THEN moved
    ELSE FinishTurn(
           IF moved.g.engine = Shared
           THEN TurnFlowShared(moved.g, a, tokenIdToMove,
                               moved.g.players[a].tokens[k].positionIndex)
           ELSE TurnFlowClient(moved.g, a, tokenIdToMove,
                               moved.g.players[a].tokens[k].positionIndex))

\* playTurn from the lap detection to its end, for the current player a and
\* its k-th token: the game it leaves and whether it threw a ReferenceError.
ResolveTurn(g, a, k, tokenIdToMove, diceResult) ==
    ContinueTurn(MoveToken(g, a, k, diceResult), a, k, tokenIdToMove)

\* playTurn throws a TypeError on token.positionIndex when the current
\* player has no token with the given id; nothing has been changed by then.
TokenLookupThrows(g, tokenIdToMove) ==
    /\ ~g.isGameOver
    /\ ~getCurrentPlayer(g).isAllOut
    /\ FindToken(getCurrentPlayer(g), tokenIdToMove) = 0

\* playTurn throws: the TypeError of the token lookup, or the ReferenceError
\* of a playSound call on the way
PlayTurnThrows(g, tokenIdToMove, diceResult) ==
    /\ ~g.isGameOver
    /\ ~getCurrentPlayer(g).isAllOut
    /\ \/ FindToken(getCurrentPlayer(g), tokenIdToMove) = 0
       \/ ResolveTurn(g, g.currentPlayerIndex + 1,
                      FindToken(getCurrentPlayer(g), tokenIdToMove),
                      tokenIdToMove, diceResult).threw

\* Faulty variant of playTurn: the all-out test is missing, an all-out
\* player plays its turn like any other.
playTurn_NoAllOutSkip(g, tokenIdToMove, diceResult) ==
    IF g.isGameOver THEN g
    ELSE IF FindToken(getCurrentPlayer(g), tokenIdToMove) = 0 THEN g
    ELSE LET a == g.currentPlayerIndex + 1
             k == FindToken(g.players[a], tokenIdToMove)
         IN  ResolveTurn(g, a, k, tokenIdToMove, diceResult).g

\* Faulty variant of playTurn: the game-over test at its head is missing.
playTurn_NoGameOverGuard(g, tokenIdToMove, diceResult) ==
    IF getCurrentPlayer(g).isAllOut THEN advanceToNextPlayer(g)
    ELSE IF FindToken(getCurrentPlayer(g), tokenIdToMove) = 0 THEN g
    ELSE LET a == g.currentPlayerIndex + 1
             k == FindToken(g.players[a], tokenIdToMove)
         IN  ResolveTurn(g, a, k, tokenIdToMove, diceResult).g

\* The game as playTurn(tokenIdToMove, diceResult) leaves it, whether it
\* returns or throws (see PlayTurnThrows)
playTurn(g, tokenIdToMove, diceResult) ==
    IF g.isGameOver THEN g
    ELSE IF getCurrentPlayer(g).isAllOut THEN advanceToNextPlayer(g)
    ELSE IF TokenLookupThrows(g, tokenIdToMove) THEN g
    ELSE LET a == g.currentPlayerIndex + 1
             k == FindToken(g.players[a], tokenIdToMove)
         IN  ResolveTurn(g, a, k, tokenIdToMove, diceResult).g

(***************************************************************************)
(* Serialization.  A JSON value is modelled by the record of its fields.   *)
(* Player.toJSON puts the player's tokens array itself into the result     *)
(* and Player.fromJSON stores that same array in the new player: the       *)
(* value of the tokens is copied here, the sharing of the array is kept    *)
(* in the variable `copy` (see ShareTokens).                               *)
(***************************************************************************)
PlayerToJSON(p) ==
    [ id |-> p.id, color |-> p.color, homeBaseIndex |-> p.homeBaseIndex,
      score |-> p.score, wickets |-> p.wickets,
      turnsRemaining |-> p.turnsRemaining, tokens |-> p.tokens,
      isAllOut |-> p.isAllOut ]

PlayerFromJSON(data) ==
    [ NewPlayer(data.id, data.color, data.homeBaseIndex, data.turnsRemaining)
        EXCEPT !.score = data.score,
               !.wickets = data.wickets,
               !.tokens = data.tokens,
               !.isAllOut = data.isAllOut ]

toJSON(g) ==
    [ players |-> [i \in 1..Len(g.players) |-> PlayerToJSON(g.players[i])],
      currentPlayerIndex |-> g.currentPlayerIndex,
      isGameOver |-> g.isGameOver,
      gameMode |-> g.gameMode,
      settings |-> g.settings ]

\* new Game(data.gameMode, [], data.settings) initializes no player; the
\* state is then taken from the data
fromJSON(data) ==
    LET game == NewGame(data.gameMode, <<>>, data.settings, Shared)
    IN  [ game EXCEPT
            !.players = [i \in 1..Len(data.players) |-> PlayerFromJSON(data.players[i])],
            !.currentPlayerIndex = data.currentPlayerIndex,
            !.isGameOver = data.isGameOver ]

\* Game g seen through tokens arrays it shares with game h: the tokens of
\* each player are those of h's player
ShareTokens(g, h) ==
    [ g EXCEPT !.players =
        [i \in 1..Len(g.players) |-> [g.players[i] EXCEPT !.tokens = h.players[i].tokens]] ]

(***************************************************************************)
(* Starting states.  A game is built by the constructor and then driven by *)
(* playTurn; the games the model starts from are new games and games       *)
(* reached from a new game by replaying a fixed sequence of playTurn calls *)
(* with legal arguments.  A call of the shared engine that throws leaves   *)
(* the game as it was at the throw, and the replay goes on with that game  *)
(* (a caller that catches the error holds it).  The two engines take the   *)
(* same calls to different games, so each has its own sequences.           *)
(***************************************************************************)
St(anti, kill, steal) ==
    [allowAntiClockwise |-> anti, killRule |-> kill, stealLevelOnKill |-> steal]

cw(t, m) == [tokenId |-> t, diceResult |-> [movement |-> m, direction |-> Clockwise]]

acw(t, m) == [tokenId |-> t, diceResult |-> [movement |-> m, direction |-> AntiClockwise]]

RECURSIVE Rep(_, _)
Rep(ms, n) == IF n = 0 THEN <<>> ELSE ms \o Rep(ms, n - 1)

RECURSIVE Replay(_, _)
Replay(g, ms) ==
    IF ms = <<>> THEN g
    ELSE LET next == playTurn(g, Head(ms).tokenId, Head(ms).diceResult)
         IN  \* the game after this call is computed before the remaining
             \* calls are replayed
             IF next.isGameOver \in BOOLEAN THEN Replay(next, Tail(ms)) ELSE next

Scenario(mode, colors, gameSettings, ms) ==
    [mode |-> mode, colors |-> colors, settings |-> gameSettings, moves |-> ms]

(***************************************************************************)
(* Calls replayed on the client engine                                     *)
(***************************************************************************)
\* Blue runs to Yellow's base in one turn (6 is an Extra square); Yellow puts
\* token 2 on the Extra square 18 and token 1 on the Runs square 15.
Duel == << cw(1, 6), cw(1, 6), cw(2, 6), cw(1, 3) >>

\* Blue token 1 on Yellow's base, Yellow with both tokens on the Runs square 15.
Stack == << cw(1, 6), cw(1, 6), cw(1, 3), cw(2, 2), cw(2, 3) >>

\* Both players walk a token onto the Wicket square four squares ahead of
\* their base, nine times each: nine wickets each, every token at home.
Nine == Rep(<< cw(1, 4), cw(1, 4) >>, 9)

\* After Nine: Yellow's tokens on 15 and 17, Blue captures the one on 15:
\* Yellow is all-out with a token still standing on 17, two squares ahead of
\* Blue's token.
TenOut == Nine \o << cw(1, 6), cw(1, 6), cw(1, 3), cw(2, 2), cw(2, 5), cw(1, 3) >>

\* Blue token 1 walks the ring to square 46, two squares short of its base;
\* Yellow shuffles its tokens to 15.
Lap == << cw(1, 6), cw(1, 6), cw(1, 2), cw(1, 6), cw(1, 6), cw(2, 2),
          cw(1, 6), cw(1, 6), cw(1, 1), cw(1, 6), cw(1, 4), cw(2, 1) >>

\* Three players, fortress rule, both directions.  Yellow builds a fortress
\* on 15, Green walks back onto it, Yellow moves one token off: one Yellow
\* and one Green token share square 15, three squares ahead of Blue.
Trio == << cw(1, 6), cw(1, 6), cw(1, 3), cw(1, 2),
           cw(2, 2), cw(2, 3), acw(2, 6), acw(2, 3),
           cw(2, 1), cw(1, 5), cw(1, 3) >>

\* Turn-limited game near its end.  Each player walks token 1 five squares
\* at a time (Runs, DotBall, Runs, then a Wicket square and back to base),
\* nineteen turns each: one turn left each.
Innings == Rep(<< cw(1, 5), cw(1, 5) >>, 19)

\* After Innings, Blue plays its last turn: Blue has no turn left, Yellow
\* has one and is the current player.
LastBall == Innings \o << cw(1, 5) >>

ClientEngineScenarios ==
    { Scenario(T20, <<Blue, Yellow>>, St(FALSE, "jackpot", TRUE), <<>>),
      Scenario(Test, <<Blue, Yellow, Green>>, St(TRUE, "fortress", FALSE), <<>>),
      Scenario(FiftyFifty, <<Blue, Yellow, Green, Purple>>, St(FALSE, "jackpot", FALSE), <<>>),
      Scenario(T20, <<Blue, Yellow>>, St(FALSE, "jackpot", TRUE), Duel),
      Scenario(Test, <<Blue, Yellow>>, St(FALSE, "fortress", FALSE), Duel),
      Scenario(T20, <<Blue, Yellow>>, St(FALSE, "jackpot", FALSE), Stack),
      Scenario(T20, <<Blue, Yellow>>, St(FALSE, "fortress", TRUE), Stack),
      Scenario(T20, <<Blue, Yellow>>, St(FALSE, "jackpot", TRUE), Nine \o Stack),
      Scenario(Test, <<Blue, Yellow>>, St(FALSE, "jackpot", TRUE), Nine \o Duel),
      Scenario(T20, <<Blue, Yellow>>, St(FALSE, "jackpot", FALSE), TenOut),
      Scenario(T20, <<Blue, Yellow>>, St(FALSE, "jackpot", TRUE), Lap),
      \* After Lap: Blue token 1 steps onto its base (level 2), Yellow moves on.
      Scenario(FiftyFifty, <<Blue, Yellow>>, St(FALSE, "fortress", FALSE),
               Lap \o << cw(1, 2), cw(1, 2) >>),
      Scenario(T20, <<Blue, Yellow, Green>>, St(TRUE, "fortress", TRUE), Trio),
      \* Trio before Yellow moves off: Yellow's fortress and one Green token on 15.
      Scenario(Test, <<Blue, Yellow, Green>>, St(TRUE, "fortress", FALSE),
               SubSeq(Trio, 1, 8)),
      \* Both directions, level stealing.  Yellow steps back off its base and
      \* forward onto it again (a level-up each time): token 1 reaches level 2 and
      \* token 2 level 3, both end on the Runs square 15, three squares ahead of
      \* Blue's token 1; Blue's token 2 stands on 9, six squares behind them.
      Scenario(T20, <<Blue, Yellow>>, St(TRUE, "jackpot", TRUE),
               << cw(1, 6), cw(1, 6), acw(1, 1), cw(1, 1), cw(2, 2), cw(1, 3),
               cw(2, 1), acw(2, 1), cw(2, 1), cw(2, 2), acw(2, 1), cw(2, 1),
               cw(2, 4), cw(2, 3) >>),
      Scenario(Test, <<Blue, Yellow>>, St(FALSE, "jackpot", FALSE), Nine),
      Scenario(T20, <<Blue, Yellow>>, St(FALSE, "jackpot", FALSE), Innings),
      Scenario(T20, <<Blue, Yellow>>, St(FALSE, "jackpot", FALSE), LastBall),
      \* After LastBall, Yellow plays its last turn: every player is out of turns.
      Scenario(T20, <<Blue, Yellow>>, St(FALSE, "jackpot", FALSE),
               LastBall \o << cw(1, 5) >>),
      \* After Nine, both players lose their tenth wicket: every player is all-out.
      Scenario(Test, <<Blue, Yellow>>, St(FALSE, "jackpot", FALSE),
               Nine \o << cw(1, 4), cw(1, 4) >>),
      \* After TenOut, Yellow's turn is skipped and Blue captures Yellow's last
      \* token on the Runs square 17: Yellow has eleven wickets, Blue has passed
      \* Yellow's score and the game goes on.
      Scenario(T20, <<Blue, Yellow>>, St(FALSE, "jackpot", FALSE),
               TenOut \o << cw(1, 1), cw(1, 2) >>) }

(***************************************************************************)
(* Calls replayed on the shared engine.  A token of the shared engine can  *)
(* finish a move only on a SafeZone, a DotBall or a Runs square of value   *)
(* 1, 2 or 3, without passing its base: in a quarter of the board the      *)
(* squares 0, 1, 2, 3, 7 and 10.                                           *)
(***************************************************************************)
\* Blue's token 1 walks 2, 7, 12 to Yellow's base; Yellow puts token 1 on
\* the Runs square 15 and token 2 on the DotBall square 14.  No call throws.
Approach == << cw(1, 2), cw(1, 3), cw(1, 5), cw(2, 1), cw(1, 5), cw(2, 1) >>

\* Blue's token 1 on Yellow's base, both tokens of Yellow on the Runs square
\* 15.  No call throws.
Fortress == << cw(1, 2), cw(1, 1), cw(1, 5), cw(1, 2), cw(1, 5), cw(2, 3) >>

\* The current player walks token 1 onto the Wicket squares 4 and 8 in
\* turn, ten times: every call throws after the wicket is counted and
\* leaves the turn with the player, who ends all-out with token 1 on 8.
TenWickets == << cw(1, 4) >> \o Rep(<< cw(1, 4), acw(1, 4) >>, 4) \o << cw(1, 4) >>

\* The first nine of these calls: nine wickets, token 1 on square 4
NineWickets == SubSeq(TenWickets, 1, 9)

\* Blue is all-out, the next call skips its turn: Yellow is the current
\* player
BlueOut == TenWickets \o << cw(1, 1) >>

\* Every player is all-out
BothOut == BlueOut \o TenWickets

\* Blue scores 4 on the Runs square 5 (the call throws after the score),
\* then loses ten wickets; its turn is skipped and Yellow scores 1 on the
\* Runs square 13: Yellow, the lone survivor, is behind and Blue's turn is
\* skipped next.
Behind == << cw(2, 5) >> \o BlueOut \o << cw(1, 1) >>

\* One quarter of the board for every player of a game of two, token 1 in
\* steps of 1, 1, 1, 4, 3, 2: six turns each, no call throws.
Quarter == << cw(1, 1), cw(1, 1), cw(1, 1), cw(1, 1), cw(1, 1), cw(1, 1),
              cw(1, 4), cw(1, 4), cw(1, 3), cw(1, 3), cw(1, 2), cw(1, 2) >>

\* Turn-limited game near its end: nineteen turns each, one turn left each
NineteenOvers == Rep(Quarter, 3) \o << cw(1, 1), cw(1, 1) >>

\* Blue has played its last turn, Yellow has one left and is the current
\* player
LastOver == NineteenOvers \o << cw(1, 1) >>

\* Before its first turn Yellow loses nine wickets with token 1 (calls that
\* throw and leave the turn with Yellow); then Blue plays its twenty turns
\* and Yellow nineteen with token 2, and Yellow's token 1 steps from 16 onto
\* the Wicket square 20: Yellow is all-out with one turn left and still the
\* current player, Blue has no turn left and the game is not over.  The
\* turns are those of Quarter, with token 2 for Yellow.
Overdue == << cw(1, 1) >> \o NineWickets
              \o SubSeq(Rep(<< cw(1, 1), cw(2, 1), cw(1, 1), cw(2, 1), cw(1, 1), cw(2, 1),
                               cw(1, 4), cw(2, 4), cw(1, 3), cw(2, 3), cw(1, 2), cw(2, 2) >>, 3)
                           \o << cw(1, 1), cw(2, 1), cw(1, 1) >>, 2, 39)
              \o << cw(1, 4) >>

\* Token 1 of each player goes round the board over squares that have no
\* sound (3, 7, 10, 13, 19, ... in steps of 3, 4, 3, 3, 6, 3, 3, 6, ...):
\* Blue's token 1 stands on 46, one square before the Extra square 47 and
\* two before its base, Yellow's token 1 on 7.  Blue's token 2 has stepped
\* onto 3, Yellow's token 2 onto 15, and Yellow is the current player.  No
\* call throws.
Cornered == << cw(1, 3), cw(1, 3), cw(1, 4), cw(1, 4), cw(1, 3), cw(1, 3),
               cw(1, 3), cw(1, 3), cw(1, 6), cw(1, 6), cw(1, 3), cw(1, 3),
               cw(1, 3), cw(1, 3), cw(1, 6), cw(1, 6), cw(1, 3), cw(1, 3),
               cw(1, 3), cw(1, 3), cw(1, 6), cw(1, 6),
               cw(1, 3), cw(2, 3), cw(2, 3) >>

Scenarios ==
    { Scenario(T20, <<Blue, Yellow>>, St(FALSE, "jackpot", TRUE), <<>>),
      Scenario(Test, <<Blue, Yellow, Green>>, St(TRUE, "fortress", FALSE), <<>>),
      Scenario(FiftyFifty, <<Blue, Yellow, Green, Purple>>, St(FALSE, "jackpot", FALSE), <<>>),
      Scenario(T20, <<Blue, Yellow>>, St(FALSE, "jackpot", TRUE), Approach),
      Scenario(Test, <<Blue, Yellow>>, St(FALSE, "fortress", FALSE), Approach),
      Scenario(T20, <<Blue, Yellow>>, St(FALSE, "jackpot", FALSE), Fortress),
      Scenario(T20, <<Blue, Yellow>>, St(FALSE, "fortress", TRUE), Fortress),
      \* Blue's token 1 on Yellow's base; Yellow's token 1 on the Extra square 18
      \* (the call that put it there threw after the run was scored, and left
      \* the turn with Yellow), Yellow's token 2 on the Runs square 15.
      Scenario(T20, <<Blue, Yellow>>, St(FALSE, "jackpot", TRUE),
               << cw(1, 2), cw(1, 6), cw(2, 1), cw(1, 5), cw(2, 1), cw(1, 5),
               cw(2, 1) >>),
      Scenario(T20, <<Blue, Yellow>>, St(TRUE, "jackpot", FALSE), NineWickets),
      Scenario(Test, <<Blue, Yellow>>, St(TRUE, "jackpot", FALSE), TenWickets),
      Scenario(T20, <<Blue, Yellow>>, St(TRUE, "jackpot", FALSE), BlueOut),
      Scenario(Test, <<Blue, Yellow>>, St(TRUE, "jackpot", FALSE), BlueOut \o NineWickets),
      Scenario(Test, <<Blue, Yellow>>, St(TRUE, "jackpot", FALSE), BothOut),
      Scenario(T20, <<Blue, Yellow>>, St(TRUE, "jackpot", FALSE), BothOut),
      Scenario(T20, <<Blue, Yellow>>, St(TRUE, "jackpot", FALSE), Behind),
      \* After Behind, Blue's turn is skipped and Yellow scores 2 on the Runs
      \* square 15: Yellow, one run behind Blue, stands four squares before the
      \* Runs square 19 of value 3 and Blue's turn is skipped next.
      Scenario(T20, <<Blue, Yellow>>, St(TRUE, "jackpot", FALSE),
               Behind \o << cw(1, 1), cw(1, 2) >>),
      Scenario(T20, <<Blue, Yellow>>, St(FALSE, "jackpot", FALSE), NineteenOvers),
      Scenario(T20, <<Blue, Yellow>>, St(FALSE, "jackpot", FALSE), LastOver),
      \* Every player is out of turns
      Scenario(T20, <<Blue, Yellow>>, St(FALSE, "jackpot", FALSE),
               LastOver \o << cw(1, 1) >>),
      \* Yellow's token 1 steps off its base onto 13 and is sent back over the
      \* base twice: each of the two calls throws after the level-up and before
      \* the token moves, so the token stands on 13 with level 3.  Yellow's token
      \* 2 stands on 14, Blue's token 1 on square 10; Yellow is the current player.
      Scenario(T20, <<Blue, Yellow>>, St(TRUE, "jackpot", TRUE),
               << cw(1, 3), cw(1, 1), cw(1, 4), acw(1, 1), acw(1, 1),
               cw(2, 2), cw(1, 3) >>),
      \* Three players, fortress rule: Yellow's tokens on 15, Green's token 1 has
      \* walked back to 15 as well; Blue's token 1 stands on Yellow's base.
      Scenario(T20, <<Blue, Yellow, Green>>, St(TRUE, "fortress", TRUE),
               << cw(1, 2), cw(1, 1), acw(1, 2), cw(1, 5), cw(1, 2),
               acw(1, 3), cw(1, 5), cw(2, 3), acw(1, 4) >>),
      \* Blue's token 1 on square 7, five squares before Yellow's base, on which
      \* Yellow's token 2 still stands (Yellow has moved token 1 to 19).  No call
      \* throws.
      Scenario(T20, <<Blue, Yellow>>, St(FALSE, "fortress", FALSE),
               << cw(1, 2), cw(1, 3), cw(1, 5), cw(1, 4) >>),
      Scenario(T20, <<Blue, Yellow>>, St(TRUE, "jackpot", FALSE), Overdue),
      Scenario(T20, <<Blue, Yellow>>, St(FALSE, "jackpot", FALSE), Cornered),
      \* Token 1 of each player goes round the board in steps of 2, 5, 5, three
      \* quarters and then 2, 5, 3: Blue's token 1 stands on 46, two squares
      \* before its base, Yellow's on 10.  No call throws.
      Scenario(FiftyFifty, <<Blue, Yellow>>, St(FALSE, "jackpot", TRUE),
               Rep(<< cw(1, 2), cw(1, 2), cw(1, 5), cw(1, 5), cw(1, 5),
               cw(1, 5) >>, 3) \o << cw(1, 2), cw(1, 2), cw(1, 5), cw(1, 5),
               cw(1, 3), cw(1, 3) >>) }

\* Every replayed turn is a legal one: the dice is one rollDice can return
\* under the scenario's settings and the token id is 1 or 2.
ScenariosLegal ==
    \A sc \in Scenarios \cup ClientEngineScenarios : \A i \in 1..Len(sc.moves) :
        /\ sc.moves[i].diceResult \in rollDice(sc.settings)
        /\ sc.moves[i].tokenId \in {1, 2}

\* Steps of the move (position, dice) on which the token stands on square x
StepsOn(startPosition, diceResult, x) ==
    { j \in 1..diceResult.movement :
        getMovementPath(startPosition, diceResult)[j] = x }

Sign(diceResult) == IF diceResult.direction = Clockwise THEN 1 ELSE -1

\* History of the tokens, kept for the properties: for each token the net
\* number of squares it has travelled (clockwise positive) since it last
\* stood on its owner's home base.  In a new game every token stands on
\* its base.
TripStart(g) ==
    [ i \in 1..Len(g.players) |-> [ k \in 1..2 |-> 0 ] ]

\* The trips after playTurn(tokenId, diceResult) has taken game `before`
\* to game `after`
TripAfterTurn(trip, before, after, tokenId, diceResult) ==
    LET a == before.currentPlayerIndex + 1
        moved == /\ ~before.isGameOver
                 /\ ~before.players[a].isAllOut
                 /\ FindToken(before.players[a], tokenId) # 0
                 /\ ~MoveToken(before, a, tokenId, diceResult).threw
        home(i) == before.players[i].homeBaseIndex
        crossings == StepsOn(before.players[a].tokens[tokenId].positionIndex,
                             diceResult, home(a))
    IN  [ i \in 1..Len(before.players) |-> [ k \in 1..2 |->
            IF after.players[i].tokens[k].positionIndex = home(i) THEN 0
            ELSE IF ~(moved /\ i = a /\ k = tokenId) THEN trip[i][k]
            ELSE IF crossings # {}
                 THEN Sign(diceResult) * (diceResult.movement - Max(crossings))
            ELSE trip[i][k] + Sign(diceResult) * diceResult.movement ] ]

RECURSIVE ReplayTrip(_, _, _)
ReplayTrip(g, trip, ms) ==
    IF ms = <<>> THEN trip
    ELSE LET next == playTurn(g, Head(ms).tokenId, Head(ms).diceResult)
             tripNext == TripAfterTurn(trip, g, next, Head(ms).tokenId, Head(ms).diceResult)
         IN  IF next.isGameOver \in BOOLEAN /\ tripNext = tripNext
             THEN ReplayTrip(next, tripNext, Tail(ms)) ELSE trip

\* The trips of the tokens of the game of scenario sc
TripOf(sc, eng) ==
    ReplayTrip(NewGame(sc.mode, sc.colors, sc.settings, eng),
               TripStart(NewGame(sc.mode, sc.colors, sc.settings, eng)), sc.moves)

GameOf(sc, eng) == Replay(NewGame(sc.mode, sc.colors, sc.settings, eng), sc.moves)

\* The game held by the variables
Game ==
    [ players |-> players, currentPlayerIndex |-> currentPlayerIndex,
      isGameOver |-> isGameOver, gameMode |-> gameMode, settings |-> settings,
      engine |-> engine ]

NoDice == [movement |-> 0, direction |-> Clockwise]

\* The variables of the game hold the game g, nothing has been called on it
StartGame(g, trip) ==
    /\ players = g.players
    /\ currentPlayerIndex = g.currentPlayerIndex
    /\ isGameOver = g.isGameOver
    /\ gameMode = g.gameMode
    /\ settings = g.settings
    /\ engine = g.engine
    /\ last = [op |-> "init", tokenId |-> 0, diceResult |-> NoDice, before |-> g,
               threw |-> FALSE, trip |-> trip, tripBefore |-> trip]
    /\ moves = 0
    /\ copy = NoCopy
    /\ pathCall = NoPath

Init == \E sc \in Scenarios : StartGame(GameOf(sc, Shared), TripOf(sc, Shared))

InitEngines ==
    \E eng \in {Shared, Client} : \E sc \in (IF eng = Shared THEN Scenarios ELSE ClientEngineScenarios) :
        StartGame(GameOf(sc, eng), TripOf(sc, eng))

TokenIds == {1, 2}

\* The token ids playTurn is called with: make-move hands it the tokenId of
\* the request as it came, 3 stands for the ids no player owns
RequestedTokenIds == TokenIds \cup {3}

Call(tokenId, diceResult) == [tokenId |-> tokenId, diceResult |-> diceResult]

\* The copy after playTurn(tokenId, diceResult) on the original gave game g
CopyAfterTurn(g, tokenId, diceResult) ==
    IF copy = NoCopy THEN NoCopy
    ELSE << [ copy[1] EXCEPT
                !.g = IF copy[1].shared THEN ShareTokens(@, g) ELSE @,
                !.calls = Append(@, Call(tokenId, diceResult)) ] >>

\* The variables take the value of game g; `last` records the call made and
\* the game it was made on.
Becomes(g, op, tokenId, diceResult) ==
    /\ players' = g.players
    /\ currentPlayerIndex' = g.currentPlayerIndex
    /\ isGameOver' = g.isGameOver
    /\ UNCHANGED <<gameMode, settings, engine>>
    /\ last' = [op |-> op, tokenId |-> tokenId, diceResult |-> diceResult, before |-> Game,
                threw |-> op = "playTurn" /\ PlayTurnThrows(Game, tokenId, diceResult),
                trip |-> IF op = "playTurn"
                         THEN TripAfterTurn(last.trip, Game, g, tokenId, diceResult)
                         ELSE last.trip,
                tripBefore |-> last.trip]
    /\ moves' = moves + 1
    /\ copy' = IF op = "playTurn" THEN CopyAfterTurn(g, tokenId, diceResult) ELSE copy
    /\ UNCHANGED pathCall

PlayTurn ==
    /\ moves < MaxMoves
    /\ \E tokenId \in RequestedTokenIds, diceResult \in rollDice(settings) :
          Becomes(playTurn(Game, tokenId, diceResult), "playTurn", tokenId, diceResult)

\* advanceToNextPlayer is public in the shared engine; on the client engine
\* GameScreen calls it to pass the turn of an all-out player
AdvanceToNextPlayer ==
    /\ moves < MaxMoves
    /\ Becomes(advanceToNextPlayer(Game), "advanceToNextPlayer", 0, NoDice)

Next == PlayTurn \/ AdvanceToNextPlayer

Spec == Init /\ [][Next]_vars

SpecEngines == InitEngines /\ [][Next]_vars

\* g2 = Game.fromJSON(g.toJSON()) in the process that holds g: the players
\* of g2 hold the tokens arrays of g's players
FromJSON ==
    /\ copy = NoCopy
    /\ copy' = << [g |-> fromJSON(toJSON(Game)), shared |-> TRUE,
                   calls |-> <<>>, copyCalls |-> <<>>] >>
    /\ UNCHANGED <<players, currentPlayerIndex, isGameOver, gameMode, settings,
                   engine, last, moves, pathCall>>

\* Game.fromJSON of the state another process wrote with game.toJSON()
\* (make-move reads the game_state column this way): the JSON text shares
\* nothing
FromStoredJSON ==
    /\ copy = NoCopy
    /\ copy' = << [g |-> fromJSON(toJSON(Game)), shared |-> FALSE,
                   calls |-> <<>>, copyCalls |-> <<>>] >>
    /\ UNCHANGED <<players, currentPlayerIndex, isGameOver, gameMode, settings,
                   engine, last, moves, pathCall>>

\* playTurn on the copy; tokens arrays shared with the original change in
\* the original too
PlayTurnCopy ==
    /\ copy # NoCopy
    /\ Len(copy[1].copyCalls) < MaxCopyMoves
    /\ \E tokenId \in TokenIds, diceResult \in rollDice(copy[1].g.settings) :
          LET g2 == playTurn(copy[1].g, tokenId, diceResult)
          IN  /\ copy' = << [ copy[1] EXCEPT
                                !.g = g2,
                                !.copyCalls = Append(@, Call(tokenId, diceResult)) ] >>
              /\ players' = IF copy[1].shared THEN ShareTokens(Game, g2).players
                                               ELSE players
    /\ UNCHANGED <<currentPlayerIndex, isGameOver, gameMode, settings, engine,
                   last, moves, pathCall>>

NextJSON == FromJSON \/ FromStoredJSON \/ PlayTurn \/ PlayTurnCopy

SpecJSON == Init /\ [][NextJSON]_vars

\* getMovementPath called on its own (the screens call it to animate a move)
GetMovementPath ==
    /\ \E startPosition \in 0..(BOARD_SIZE - 1),
          diceResult \in rollDice(St(TRUE, "jackpot", FALSE)) :
            pathCall' = [ startPosition |-> startPosition, diceResult |-> diceResult,
                      result |-> getMovementPath(startPosition, diceResult) ]
    /\ UNCHANGED <<players, currentPlayerIndex, isGameOver, gameMode, settings,
                   engine, last, moves, copy>>

NextPath == GetMovementPath

\* New games, on which getMovementPath is called
InitPath == \E sc \in Scenarios : sc.moves = <<>> /\ StartGame(GameOf(sc, Shared), TripOf(sc, Shared))

SpecPath == InitPath /\ [][NextPath]_vars

\* getReturnPath, a public method of the shared engine that reads the
\* settings of the game and nothing else, applied to every start position
\* and home base of the ring.  The client engine has no such method.
GetReturnPath ==
    /\ engine = Shared
    /\ pathCall = NoPath
    /\ \E startPosition \in 0..(BOARD_SIZE - 1), homeBaseIndex \in 0..(BOARD_SIZE - 1) :
            pathCall' = [ startPosition |-> startPosition,
                          homeBaseIndex |-> homeBaseIndex,
                          result |-> getReturnPath(Game, startPosition, homeBaseIndex) ]
    /\ UNCHANGED <<players, currentPlayerIndex, isGameOver, gameMode, settings,
                   engine, last, moves, copy>>

NextReturn == GetReturnPath

SpecReturn == InitPath /\ [][NextReturn]_vars

\* rollDice called on the game: the result goes to the caller, `last`
\* records it
RollDice ==
    /\ \E r1 \in Randoms, r2 \in Randoms :
          last' = [op |-> "rollDice", tokenId |-> 0,
                   diceResult |-> rollDiceWith(settings, r1, r2),
                   before |-> Game, threw |-> FALSE,
                   trip |-> last.trip, tripBefore |-> last.trip]
    /\ UNCHANGED <<players, currentPlayerIndex, isGameOver, gameMode, settings,
                   engine, moves, copy, pathCall>>

NextDice == RollDice

SpecDice == Init /\ [][NextDice]_vars

\* Games driven by playTurn alone
NextPlay == PlayTurn

SpecPlay == Init /\ [][NextPlay]_vars

\* The movements playTurn is called with below: a step, the highest number
\* rollDice returns and a whole lap of the ring
LapMovements == {1, 6, BOARD_SIZE}

\* playTurn called with a DiceResult that need not come from rollDice: the
\* method is public, takes any number as movement and tests none of it
PlayTurnLap ==
    /\ moves < MaxMoves
    /\ \E tokenId \in TokenIds, m \in LapMovements :
          Becomes(playTurn(Game, tokenId, [movement |-> m, direction |-> Clockwise]),
                  "playTurn", tokenId, [movement |-> m, direction |-> Clockwise])

NextLap == PlayTurnLap

SpecLap == Init /\ [][NextLap]_vars

(***************************************************************************)
(* Games played to their end.  The runs below put no bound on the number   *)
(* of calls: they start from games in which Blue is all-out and Yellow,    *)
(* the last player in, has nine wickets and no more runs than Blue.  A     *)
(* call that throws takes no turn from the player, so the score and the    *)
(* level of a token can grow without limit in every mode: the runs follow  *)
(* them up to MaxScore and MaxLevel.  In these runs `last` keeps its       *)
(* starting value and `moves` counts the calls modulo 2.                   *)
(***************************************************************************)
\* Highest token level followed
MaxLevel == 2

\* Highest score followed
MaxScore == 6

InitLive ==
    \E sc \in { Scenario(T20, <<Blue, Yellow>>, St(TRUE, "jackpot", FALSE), BlueOut \o NineWickets),
                Scenario(Test, <<Blue, Yellow>>, St(TRUE, "jackpot", FALSE), BlueOut \o NineWickets) } :
        StartGame(GameOf(sc, Shared), TripOf(sc, Shared))

LevelsWithin(g) ==
    \A i \in 1..Len(g.players) :
        /\ g.players[i].score <= MaxScore
        /\ \A k \in 1..2 : g.players[i].tokens[k].level <= MaxLevel

\* One more call of playTurn, on token 1
PlayTurnLive ==
    /\ \E tokenId \in {1}, diceResult \in rollDice(settings) :
          LET g == playTurn(Game, tokenId, diceResult)
          IN  /\ LevelsWithin(g)
              /\ players' = g.players
              /\ currentPlayerIndex' = g.currentPlayerIndex
              /\ isGameOver' = g.isGameOver
    /\ moves' = (moves + 1) % 2
    /\ UNCHANGED <<gameMode, settings, engine, last, copy, pathCall>>

NextLive == PlayTurnLive

\* One more call has been made
Called == moves' = (moves + 1) % 2

\* playTurn keeps being called
SpecLive == InitLive /\ [][NextLive]_vars /\ WF_moves(Called)

(***************************************************************************)
(* Vocabulary of the properties.  `last` holds the call that produced the  *)
(* current state and the game it was made on, so a property of one call    *)
(* is a state predicate relating last.before to the current game.          *)
(***************************************************************************)
Before == last.before

\* The last call was a playTurn that resolved a move: the game was not over
\* and the current player was not all-out
Resolved ==
    /\ last.op = "playTurn"
    /\ ~Before.isGameOver
    /\ ~getCurrentPlayer(Before).isAllOut
    /\ last.tokenId \in {1, 2}

PlayerCount == Len(players)

Mover == Before.currentPlayerIndex + 1

Others == (1..PlayerCount) \ {Mover}

OldToken == Before.players[Mover].tokens[last.tokenId]

NewToken == players[Mover].tokens[last.tokenId]

OldPosition == OldToken.positionIndex

HomeBase == Before.players[Mover].homeBaseIndex

\* Squares of the move, in closed form: the i-th square of the path
PathSquare(i) ==
    IF last.diceResult.direction = Clockwise
    THEN (OldPosition + i) % BOARD_SIZE
    ELSE (OldPosition + BOARD_SIZE - i) % BOARD_SIZE

Landing == PathSquare(last.diceResult.movement)

LandingSquare == boardLayout[Landing]

CrossesHome == \E i \in 1..last.diceResult.movement : PathSquare(i) = HomeBase

\* Level of the moved token after the lap step, as the level-up rule states it
LapLevel == IF CrossesHome /\ OldPosition # HomeBase THEN OldToken.level + 1 ELSE OldToken.level

\* Opposing tokens standing on the landing square before the move
OnLanding(v) == {k \in 1..2 : Before.players[v].tokens[k].positionIndex = Landing}

\* Captures observed: wickets gained by the players other than the mover
WicketsGained(v) == players[v].wickets - Before.players[v].wickets

CaptureHappened == \E v \in Others : WicketsGained(v) > 0

RECURSIVE CapturesUpTo(_)
CapturesUpTo(v) ==
    IF v = 0 THEN 0
    ELSE (IF v # Mover THEN WicketsGained(v) ELSE 0) + CapturesUpTo(v - 1)

CaptureCount == CapturesUpTo(PlayerCount)

TurnEnded ==
    /\ currentPlayerIndex = (Before.currentPlayerIndex + 1) % PlayerCount
    /\ Before.players[Mover].turnsRemaining # NullTurns
         => players[Mover].turnsRemaining = Turns(Before.players[Mover].turnsRemaining[1] - 1)
    /\ Before.players[Mover].turnsRemaining = NullTurns
         => players[Mover].turnsRemaining = NullTurns

TurnKept ==
    /\ currentPlayerIndex = Before.currentPlayerIndex
    /\ players[Mover].turnsRemaining = Before.players[Mover].turnsRemaining

(***************************************************************************)
(* C1  Turn-flow tie-break.  In a resolved playTurn the turn ends (the     *)
(* mover's turnsRemaining drops by exactly one when it is a number and     *)
(* currentPlayerIndex becomes the next index modulo the player count) if   *)
(* and only if a capture occurred or the landing square is not an Extra    *)
(* square; on an Extra square without a capture currentPlayerIndex and     *)
(* the mover's turnsRemaining are unchanged.                               *)
(***************************************************************************)
C1_TurnFlowTieBreak ==
    Resolved =>
        /\ TurnEnded <=> (CaptureHappened \/ LandingSquare.type # Extra)
        /\ (~CaptureHappened /\ LandingSquare.type = Extra) => TurnKept

\* A move of the shared engine onto a Runs square of value 4 without a
\* capture: the call threw after the score and the turn did not end
C1_Witness ==
    /\ Resolved
    /\ engine = Shared
    /\ last.threw
    /\ LandingSquare.type = Runs
    /\ LandingSquare.value = 4
    /\ ~CaptureHappened
    /\ NewToken.positionIndex = Landing
    /\ TurnKept

\* The game right after the lap step and the placement of the moved token,
\* before collisions and the square event
AfterMove == MoveToken(Before, Mover, last.tokenId, last.diceResult).g

\* The moved token's level cannot be changed after the lap step: nothing is
\* captured with stealLevelOnKill set and the landing square is no Wicket
LevelKept ==
    /\ LandingSquare.type # Wicket
    /\ ~(CaptureHappened /\ settings.stealLevelOnKill)

(***************************************************************************)
(* C2  Level-up rule.  The lap step of a resolved playTurn raises the      *)
(* moved token's level by exactly one if and only if the mover's home      *)
(* base is one of the squares of the movement path (an intermediate one    *)
(* or the destination) and the token did not start on the home base;       *)
(* otherwise the step leaves the level as it was.  When no later step of   *)
(* the move touches the level, that is the token's level after the call.   *)
(***************************************************************************)
C2_LevelUpRule ==
    Resolved =>
        /\ AfterMove.players[Mover].tokens[last.tokenId].level = LapLevel
        /\ LapLevel \in {OldToken.level, OldToken.level + 1}
        /\ LevelKept => NewToken.level = LapLevel

\* The example of the rule: from 46, three steps clockwise, home base 0; the
\* base is an intermediate square of the path [47, 0, 1] and the level went
\* up by one
C2_Witness ==
    /\ Resolved
    /\ OldPosition = 46
    /\ last.diceResult = [movement |-> 3, direction |-> Clockwise]
    /\ HomeBase = 0
    /\ Landing = 1
    /\ OldToken.level = 1
    /\ NewToken.level = 2

\* A move that does not pass the base leaves the level as it was
C2_WitnessNoLap ==
    /\ Resolved
    /\ ~CrossesHome
    /\ OldToken.level = 3
    /\ NewToken.level = 3
    /\ NewToken.positionIndex = Landing

(***************************************************************************)
(* C3  In every state reached from a new game by playTurn and              *)
(* advanceToNextPlayer calls, a player's isAllOut is true exactly when     *)
(* the player's wickets are at least 10, and a player who was all-out      *)
(* before a call is all-out after it.                                      *)
(***************************************************************************)
C3_AllOutIffTenWickets ==
    /\ \A i \in 1..PlayerCount : players[i].isAllOut <=> players[i].wickets >= MAX_WICKETS
    /\ \A i \in 1..PlayerCount : Before.players[i].isAllOut => players[i].isAllOut

\* A player with nine wickets landed on a Wicket square: ten wickets and
\* all-out
C3_Witness ==
    /\ Resolved
    /\ LandingSquare.type = Wicket
    /\ Before.players[Mover].wickets = MAX_WICKETS - 1
    /\ ~Before.players[Mover].isAllOut
    /\ players[Mover].wickets = MAX_WICKETS
    /\ players[Mover].isAllOut

\* A call made on a game with an all-out player: the player is still all-out
C3_WitnessStays ==
    /\ last.op = "playTurn"
    /\ \E i \in 1..PlayerCount : Before.players[i].isAllOut /\ players[i].isAllOut
    /\ \E i \in 1..PlayerCount : ~players[i].isAllOut
    /\ Game # Before

(***************************************************************************)
(* C4  In every reachable state every player's wickets lie in 0..10,       *)
(* whether a wicket comes from a Wicket square or from a capture.          *)
(***************************************************************************)
C4_WicketsAtMostTen ==
    \A i \in 1..PlayerCount : players[i].wickets \in 0..MAX_WICKETS

\* Shared engine: a token landed, outside the SafeZones, on a token of a
\* player with ten wickets; the call threw and the player still has ten
C4_WitnessShared ==
    /\ Resolved
    /\ engine = Shared
    /\ LandingSquare.type # SafeZone
    /\ \E v \in Others :
          /\ Before.players[v].wickets = MAX_WICKETS
          /\ OnLanding(v) # {}
          /\ players[v].wickets = MAX_WICKETS

\* Client engine: the remaining token of an all-out player was captured,
\* its owner has eleven wickets
C4_Witness ==
    /\ Resolved
    /\ engine = Client
    /\ \E v \in Others :
          /\ Before.players[v].wickets = MAX_WICKETS
          /\ players[v].wickets = MAX_WICKETS + 1

\* Result of the collision step of the last move
Collision == handleCollisions(AfterMove, Mover, last.tokenId, Landing)

(***************************************************************************)
(* C5  Safe Zone immunity.  When the moved token lands on a SafeZone       *)
(* square nothing is captured, however many opposing tokens stand there    *)
(* and whatever the kill rule: every other player is left exactly as it    *)
(* was (wickets, token positions, token levels), the mover gets no kill    *)
(* bonus and no stolen level, and the collision result is false.           *)
(***************************************************************************)
C5_SafeZoneImmunity ==
    (Resolved /\ LandingSquare.type = SafeZone) =>
        /\ \A v \in Others : players[v] = Before.players[v]
        /\ players[Mover].score = Before.players[Mover].score
        /\ NewToken.level = LapLevel
        /\ Collision.collisionOccurred = FALSE
        /\ Collision.g = AfterMove

\* A token landed on a SafeZone square on which an opponent had both tokens
C5_Witness ==
    /\ Resolved
    /\ LandingSquare.type = SafeZone
    /\ \E v \in Others : OnLanding(v) = {1, 2}
    /\ \A v \in Others : WicketsGained(v) = 0

\* The same in the shared engine, with one opposing token on the square: the
\* call returned and the turn ended
C5_WitnessShared ==
    /\ Resolved
    /\ engine = Shared
    /\ LandingSquare.type = SafeZone
    /\ \E v \in Others : OnLanding(v) # {}
    /\ ~last.threw
    /\ NewToken.positionIndex = Landing
    /\ TurnEnded

\* Player v after losing its tokens K to captures: one wicket per token (with
\* the all-out test of takeWicket), each token on the home base with level 1
Captured(v, K) ==
    LET p == Before.players[v]
        w == p.wickets + Cardinality(K)
    IN  [p EXCEPT !.wickets = w,
                  !.isAllOut = p.isAllOut \/ w >= MAX_WICKETS,
                  !.tokens = [k \in 1..2 |->
                                 IF k \in K
                                 THEN [id |-> p.tokens[k].id,
                                       positionIndex |-> p.homeBaseIndex,
                                       level |-> 1]
                                 ELSE p.tokens[k]]]

(***************************************************************************)
(* C6  Fortress rule.  With killRule = 'fortress', when the moved token    *)
(* lands on a square that is not a SafeZone and a defender has both        *)
(* tokens there, the defender is left exactly as it was (no wicket, no     *)
(* return to base) and adds no capture to the collision result; a          *)
(* defender with exactly one token there loses it (one wicket, token on    *)
(* its base with level 1).  With killRule = 'jackpot' a defender with      *)
(* both tokens on the square loses both.                                   *)
(***************************************************************************)
C6_FortressRule ==
    (Resolved /\ LandingSquare.type # SafeZone) =>
        /\ \A v \in Others :
              /\ (settings.killRule = "fortress" /\ OnLanding(v) = {1, 2})
                    => players[v] = Before.players[v]
              /\ (settings.killRule = "fortress" /\ Cardinality(OnLanding(v)) = 1)
                    => players[v] = Captured(v, OnLanding(v))
              /\ (settings.killRule = "jackpot" /\ OnLanding(v) = {1, 2})
                    => players[v] = Captured(v, {1, 2})
        /\ (settings.killRule = "fortress"
              /\ \A v \in Others : Cardinality(OnLanding(v)) # 1)
                 => /\ Collision.collisionOccurred = FALSE
                    /\ ~CaptureHappened

\* A token landed on a Runs square where one defender has a fortress and
\* another a single token: the call threw and nothing was captured
C6_Witness ==
    /\ Resolved
    /\ settings.killRule = "fortress"
    /\ LandingSquare.type = Runs
    /\ \E v \in Others : OnLanding(v) = {1, 2} /\ players[v] = Before.players[v]
    /\ \E v \in Others : Cardinality(OnLanding(v)) = 1 /\ players[v] = Before.players[v]
    /\ last.threw
    /\ ~CaptureHappened

\* The tokens of player v a landing on a non-SafeZone square captures: those
\* standing on the landing square, unless the fortress rule protects them
Exposed(v) ==
    IF settings.killRule = "fortress" /\ OnLanding(v) = {1, 2} THEN {} ELSE OnLanding(v)

OtherTokenId == 3 - last.tokenId

(***************************************************************************)
(* C7  Capture effect.  When the moved token lands on a square that is     *)
(* not a SafeZone, every token of every other player that stands there     *)
(* and is not fortress-protected is captured: its owner's wickets rise by  *)
(* one per captured token (isAllOut set as on a Wicket square), the token  *)
(* is on its owner's home base with level 1, and nothing else of that      *)
(* player changes.  The attacker's own tokens on the square are never      *)
(* captured.  The collision result is true if and only if at least one     *)
(* token was captured.                                                     *)
(***************************************************************************)
C7_CaptureEffect ==
    (Resolved /\ LandingSquare.type # SafeZone) =>
        /\ \A v \in Others : players[v] = Captured(v, Exposed(v))
        /\ players[Mover].tokens[OtherTokenId] = Before.players[Mover].tokens[OtherTokenId]
        /\ LandingSquare.type # Wicket =>
              /\ NewToken.positionIndex = Landing
              /\ players[Mover].wickets = Before.players[Mover].wickets
        /\ Collision.collisionOccurred <=> (\E v \in Others : Exposed(v) # {})
        /\ CaptureHappened <=> (\E v \in Others : Exposed(v) # {})

\* A token landed on an exposed opposing token on a Runs square: the call
\* threw, the token's owner is as it was and the turn did not end
C7_Witness ==
    /\ Resolved
    /\ LandingSquare.type = Runs
    /\ settings.killRule = "jackpot"
    /\ \E v \in Others : Exposed(v) # {} /\ players[v] = Before.players[v]
    /\ last.threw
    /\ NewToken.positionIndex = Landing
    /\ TurnKept

\* Score the mover gained in the last move beyond the kill bonuses of its
\* engine (nothing on squares that are not Runs squares)
ScoreGained == players[Mover].score - Before.players[Mover].score

BonusGained ==
    IF LandingSquare.type = Runs
    THEN CaptureCount * KillBonus(Before, LandingSquare)
    ELSE 0

\* The effect of the landing square on the mover, applied once
SquareEffectApplied ==
    CASE LandingSquare.type = Runs ->
            ScoreGained = BonusGained + LandingSquare.value * NewToken.level
      [] LandingSquare.type = Extra ->
            ScoreGained = NewToken.level
      [] LandingSquare.type = Wicket ->
            /\ players[Mover].wickets = Before.players[Mover].wickets + 1
            /\ NewToken.positionIndex = HomeBase
            /\ NewToken.level = 1
            /\ ScoreGained = 0
      [] OTHER -> ScoreGained = 0

(***************************************************************************)
(* C8  Square-event resolution runs exactly once in every resolved         *)
(* playTurn, on the landing square, whether or not the move captured: a    *)
(* capturing move on a Runs, Extra or Wicket square still applies the      *)
(* square's scoring or wicket effect to the mover.                         *)
(***************************************************************************)
C8_SquareEventAlwaysRuns == Resolved => SquareEffectApplied

\* Shared engine: a token landed on an opposing token on a Runs square; the
\* call threw in the collision step and the square's runs were not scored
C8_Witness ==
    /\ Resolved
    /\ engine = Shared
    /\ LandingSquare.type = Runs
    /\ \E v \in Others : Exposed(v) # {}
    /\ last.threw
    /\ ScoreGained = 0

\* Result of the square event of the last move, resolved after the collisions
SquareEvent == resolveSquareEvent(Collision.g, Mover, last.tokenId, LandingSquare)

\* No level was stolen in the last move
NoSteal == ~(CaptureHappened /\ settings.stealLevelOnKill)

(***************************************************************************)
(* C9  Square effects of the scoring squares.  Landing on a Runs square    *)
(* adds value x level of the moving token to the mover's score and grants  *)
(* no extra turn; landing on an Extra square adds exactly the moving       *)
(* token's level and grants an extra turn; landing on a DotBall or         *)
(* SafeZone square changes no score, wickets or level and grants no extra  *)
(* turn.  The level is the token's level on landing (the lap level when    *)
(* no level was stolen); kill bonuses are counted apart.                   *)
(***************************************************************************)
C9_ScoringSquares ==
    Resolved =>
        /\ LandingSquare.type = Runs =>
              /\ ScoreGained = BonusGained + LandingSquare.value * NewToken.level
              /\ NoSteal => NewToken.level = LapLevel
              /\ SquareEvent.getsAnotherTurn = FALSE
              /\ TurnEnded
        /\ LandingSquare.type = Extra =>
              /\ ScoreGained = NewToken.level
              /\ NoSteal => NewToken.level = LapLevel
              /\ SquareEvent.getsAnotherTurn = TRUE
              /\ ~CaptureHappened => TurnKept
        /\ LandingSquare.type \in {DotBall, SafeZone} =>
              /\ ScoreGained = 0
              /\ players[Mover].wickets = Before.players[Mover].wickets
              /\ NoSteal => NewToken.level = LapLevel
              /\ SquareEvent.g = Collision.g
              /\ SquareEvent.getsAnotherTurn = FALSE
              /\ TurnEnded

\* A token landed on an Extra square without a capture: the mover scored the
\* token's level, the call threw and the mover is still the current player
C9_Witness ==
    /\ Resolved
    /\ LandingSquare.type = Extra
    /\ \A v \in Others : OnLanding(v) = {}
    /\ ScoreGained = NewToken.level
    /\ last.threw
    /\ TurnKept

\* A token landed on a Runs square of value 6 without a capture: the mover
\* scored, the call threw and the turn did not end
C9_WitnessRuns ==
    /\ Resolved
    /\ LandingSquare.type = Runs
    /\ LandingSquare.value = 6
    /\ \A v \in Others : OnLanding(v) = {}
    /\ ScoreGained = 6 * NewToken.level
    /\ last.threw
    /\ TurnKept

(***************************************************************************)
(* C10  Wicket square.  When the moved token lands on a Wicket square the  *)
(* mover's wickets rise by exactly one (isAllOut becomes true when they    *)
(* reach 10), the moved token is on the mover's home base with level 1     *)
(* even if the same move had levelled it up, the mover's score is          *)
(* unchanged and no extra turn is granted.                                 *)
(***************************************************************************)
C10_WicketSquare ==
    (Resolved /\ LandingSquare.type = Wicket) =>
        /\ players[Mover].wickets = Before.players[Mover].wickets + 1
        /\ players[Mover].isAllOut <=> players[Mover].wickets >= MAX_WICKETS
        /\ NewToken = [id |-> last.tokenId, positionIndex |-> HomeBase, level |-> 1]
        /\ ScoreGained = 0
        /\ SquareEvent.getsAnotherTurn = FALSE
        /\ TurnEnded

\* A token landed on a Wicket square: the wicket is counted, the call threw
\* and the token stands on the Wicket square
C10_Witness ==
    /\ Resolved
    /\ LandingSquare.type = Wicket
    /\ players[Mover].wickets = Before.players[Mover].wickets + 1
    /\ last.threw
    /\ NewToken.positionIndex = Landing
    /\ Landing # HomeBase
    /\ TurnKept

\* Score the collision step of the last move added to the mover
CollisionGain == Collision.g.players[Mover].score - AfterMove.players[Mover].score

(***************************************************************************)
(* C11  Kill bonus.  When a move that lands on a Runs square of value v    *)
(* captures k >= 1 tokens, the captures add exactly k x v to the           *)
(* attacker's score (flat per captured token: no token level, no           *)
(* doubling), on top of the square's own Runs reward of v x level;         *)
(* captures on squares that are not Runs squares add no bonus.             *)
(***************************************************************************)
C11_KillBonusFlat ==
    (Resolved /\ CaptureHappened) =>
        /\ LandingSquare.type = Runs =>
              /\ CollisionGain = CaptureCount * LandingSquare.value
              /\ ScoreGained = CaptureCount * LandingSquare.value
                                 + LandingSquare.value * NewToken.level
        /\ LandingSquare.type # Runs =>
              /\ CollisionGain = 0
              /\ ScoreGained = IF LandingSquare.type = Extra THEN NewToken.level ELSE 0

\* Client engine: two tokens captured by one move on a Runs square, by a
\* token of level 1: the mover scored four times the square's value
C11_Witness ==
    /\ Resolved
    /\ engine = Client
    /\ LandingSquare.type = Runs
    /\ CaptureCount = 2
    /\ NewToken.level = 1
    /\ ScoreGained = 4 * LandingSquare.value

\* Shared engine: a token landed on two exposed tokens on a Runs square; the
\* call threw and the mover scored nothing
C11_WitnessShared ==
    /\ Resolved
    /\ engine = Shared
    /\ LandingSquare.type = Runs
    /\ \E v \in Others : Exposed(v) = {1, 2}
    /\ last.threw
    /\ ScoreGained = 0

\* Levels, before their reset, of the tokens the last move captured
CapturedLevels ==
    IF LandingSquare.type = SafeZone THEN {}
    ELSE UNION { { Before.players[v].tokens[k].level : k \in Exposed(v) } : v \in Others }

\* Level of the moved token after the collision step
LevelAfterCollisions == Collision.g.players[Mover].tokens[last.tokenId].level

(***************************************************************************)
(* C12  Level stealing.  With stealLevelOnKill enabled, after the          *)
(* captures of a move the attacking token's level is the maximum of its    *)
(* level after the lap step and the levels the captured tokens had before  *)
(* their reset to 1 (each compared, in capture order, with the attacker's  *)
(* already-updated level); with stealLevelOnKill disabled a capture never  *)
(* changes the attacking token's level.  Unless the landing square is a    *)
(* Wicket square, that is the token's level after the move.                *)
(***************************************************************************)
C12_LevelStealing ==
    Resolved =>
        /\ settings.stealLevelOnKill
              => LevelAfterCollisions = Max({LapLevel} \cup CapturedLevels)
        /\ ~settings.stealLevelOnKill => LevelAfterCollisions = LapLevel
        /\ LandingSquare.type # Wicket => NewToken.level = LevelAfterCollisions
        /\ \A v \in Others : \A k \in Exposed(v) :
              LandingSquare.type # SafeZone => players[v].tokens[k].level = 1

\* A token of level 1 landed on an exposed token of level 3 with
\* stealLevelOnKill set: the call threw and the token still has level 1
C12_Witness ==
    /\ Resolved
    /\ settings.stealLevelOnKill
    /\ LapLevel = 1
    /\ 3 \in CapturedLevels
    /\ last.threw
    /\ NewToken.level = 1

\* Players not all-out and players all-out in the current state
Survivors == {i \in 1..PlayerCount : ~players[i].isAllOut}

AllOutPlayers == {i \in 1..PlayerCount : players[i].isAllOut}

\* Highest score among the all-out players
BestAllOutScore == Max({players[i].score : i \in AllOutPlayers})

\* The hard-stop condition of the mode, on the current state
HardStopHolds ==
    IF gameMode = Test
    THEN \A i \in 1..PlayerCount : players[i].isAllOut
    ELSE \A i \in 1..PlayerCount :
            players[i].isAllOut \/ players[i].turnsRemaining = Turns(0)

\* Exactly one player is not all-out
LoneSurvivor == Cardinality(Survivors) = 1 /\ AllOutPlayers # {}

SurvivorScore == players[CHOOSE i \in Survivors : TRUE].score

(***************************************************************************)
(* C13  Early victory (chase).  At the end of a resolved playTurn, if      *)
(* exactly one player is not all-out and that player's score is strictly   *)
(* greater than the highest score among the all-out players, the game is   *)
(* over, even if the survivor has turns remaining.  If the survivor's      *)
(* score is equal to or below that maximum, the chase does not end the     *)
(* game (only the hard stop can), and with two or more players not         *)
(* all-out the chase is never applied.                                     *)
(***************************************************************************)
C13_ChaseEarlyVictory ==
    Resolved =>
        /\ (LoneSurvivor /\ SurvivorScore > BestAllOutScore) => isGameOver
        /\ (LoneSurvivor /\ SurvivorScore <= BestAllOutScore /\ ~HardStopHolds)
              => ~isGameOver
        /\ (Cardinality(Survivors) >= 2 /\ ~HardStopHolds) => ~isGameOver

\* Shared engine: the survivor passed the best all-out score on a Runs
\* square of value 4; the call threw and the game is not over
C13_Witness ==
    /\ Resolved
    /\ engine = Shared
    /\ LoneSurvivor
    /\ ~HardStopHolds
    /\ Before.players[Mover].score <= BestAllOutScore
    /\ SurvivorScore > BestAllOutScore
    /\ last.threw
    /\ ~isGameOver

\* Client engine: the survivor leads the best all-out score after a
\* completed turn and the game is not over
C13_WitnessClient ==
    /\ Resolved
    /\ engine = Client
    /\ LoneSurvivor
    /\ ~HardStopHolds
    /\ SurvivorScore > BestAllOutScore
    /\ ~isGameOver

\* Shared engine: the survivor passed the best all-out score in a call that
\* returned, with turns remaining: the game is over
C13_WitnessChase ==
    /\ Resolved
    /\ engine = Shared
    /\ LoneSurvivor
    /\ ~HardStopHolds
    /\ Before.players[Mover].score <= BestAllOutScore
    /\ SurvivorScore > BestAllOutScore
    /\ ~last.threw
    /\ isGameOver

\* The survivor's score reached exactly the best all-out score: not over
C13_WitnessEqual ==
    /\ Resolved
    /\ LoneSurvivor
    /\ SurvivorScore = BestAllOutScore
    /\ ~isGameOver

(***************************************************************************)
(* C14  Hard stop.  In every state reached from a new game, if the mode    *)
(* is Test and every player is all-out, or the mode is T20 or 50-50 and    *)
(* every player is all-out or has turnsRemaining = 0, then isGameOver is   *)
(* true: the game ends in the very playTurn in which the condition         *)
(* becomes true.                                                           *)
(***************************************************************************)
C14_HardStop == HardStopHolds => isGameOver

\* The last wicket of a Test game fell on a Wicket square: the call threw,
\* every player is all-out and the game is not over
C14_Witness ==
    /\ Resolved
    /\ gameMode = Test
    /\ LandingSquare.type = Wicket
    /\ ~Before.players[Mover].isAllOut
    /\ last.threw
    /\ HardStopHolds
    /\ ~isGameOver

\* The last turn of a turn-limited game ended in a call that returned: every
\* player is out of turns and the game is over
C14_WitnessTurns ==
    /\ Resolved
    /\ gameMode = T20
    /\ Before.players[Mover].turnsRemaining = Turns(1)
    /\ players[Mover].turnsRemaining = Turns(0)
    /\ HardStopHolds
    /\ isGameOver

(***************************************************************************)
(* C15  Game-over latch.  Once isGameOver is true it is true after every   *)
(* later playTurn and advanceToNextPlayer call on the game: no public      *)
(* operation resets it.                                                    *)
(***************************************************************************)
C15_GameOverLatch == [][isGameOver => isGameOver']_vars

\* A call was made on a game that was over while its current player still
\* had a token to move; the game is still over
C15_Witness ==
    /\ last.op \in {"playTurn", "advanceToNextPlayer"}
    /\ Before.isGameOver
    /\ ~getCurrentPlayer(Before).isAllOut
    /\ isGameOver

\* turnsRemaining of a player as a number (turn-limited modes)
TurnsLeft(p) == p.turnsRemaining[1]

(***************************************************************************)
(* C16  Turn-limited hard stop.  In T20 mode a player whose                *)
(* turnsRemaining has reached 0 is skipped on all future turns: a          *)
(* playTurn issued while that player is the current player moves no        *)
(* token and changes no score (and raises no error); and the game is over  *)
(* once every player has 0 turns remaining or is all-out.                  *)
(***************************************************************************)
C16_ZeroTurnsSkipped ==
    /\ (last.op = "playTurn" /\ gameMode = T20
          /\ getCurrentPlayer(Before).turnsRemaining = Turns(0)) =>
            \A i \in 1..PlayerCount :
                /\ players[i].tokens = Before.players[i].tokens
                /\ players[i].score = Before.players[i].score
    /\ (gameMode = T20 /\ HardStopHolds) => isGameOver

\* playTurn was called while the current player had no turn left: its token
\* moved, it scored and its turnsRemaining is -1
C16_Witness ==
    /\ Resolved
    /\ gameMode = T20
    /\ getCurrentPlayer(Before).turnsRemaining = Turns(0)
    /\ NewToken.positionIndex # OldPosition
    /\ ScoreGained > 0
    /\ players[Mover].turnsRemaining = Turns(-1)

\* Initial turns of the mode, as the turns counter of a new player
InitialTurns == getInitialTurnsForMode(gameMode)

\* The players of a newly constructed game of the given mode
FreshPlayers(mode) ==
    LET g == NewGame(mode, <<Blue, Yellow, Green, Purple>>, settings, engine)
    IN  {g.players[i] : i \in 1..Len(g.players)}

\* The last call was a turn-ending move: a resolved playTurn that captured
\* or landed on a square that is not an Extra square
TurnEndingMove == Resolved /\ (CaptureHappened \/ LandingSquare.type # Extra)

(***************************************************************************)
(* C17  turnsRemaining is either unbounded (null: Test mode, never         *)
(* changed) or a counter that starts at 20 (T20) or 50 (50-50), only       *)
(* ever decreases, by exactly 1 per turn-ending move of its owner, and is  *)
(* never negative in any state reached from a new game by playTurn calls.  *)
(* (While the game is running, the current player, unless all-out, has at  *)
(* least one turn left.)                                                   *)
(***************************************************************************)
C17_TurnsRemaining ==
    /\ gameMode = Test =>
          \A i \in 1..PlayerCount : players[i].turnsRemaining = NullTurns
    /\ gameMode # Test =>
          \A i \in 1..PlayerCount :
              /\ players[i].turnsRemaining # NullTurns
              /\ TurnsLeft(players[i]) \in 0..InitialTurns[1]
    /\ \A p \in FreshPlayers(T20) : p.turnsRemaining = Turns(20)
    /\ \A p \in FreshPlayers(FiftyFifty) : p.turnsRemaining = Turns(50)
    /\ \A p \in FreshPlayers(Test) : p.turnsRemaining = NullTurns
    /\ (gameMode # Test /\ last.op = "playTurn") =>
          \A i \in 1..PlayerCount :
              IF i = Mover /\ TurnEndingMove
              THEN TurnsLeft(players[i]) = TurnsLeft(Before.players[i]) - 1
              ELSE players[i].turnsRemaining = Before.players[i].turnsRemaining
    /\ (gameMode # Test /\ ~isGameOver /\ ~getCurrentPlayer(Game).isAllOut)
          => TurnsLeft(getCurrentPlayer(Game)) >= 1

\* A player with no turn left was the current player of a running game
\* (the player before it was skipped as all-out) and moved a token: its
\* turnsRemaining is -1
C17_Witness ==
    /\ Resolved
    /\ gameMode = T20
    /\ Before.players[Mover].turnsRemaining = Turns(0)
    /\ ~last.threw
    /\ players[Mover].turnsRemaining = Turns(-1)
    /\ \E i \in Others : players[i].isAllOut

\* A move onto a Runs square of value 4 without a capture: the call threw
\* and the mover's turnsRemaining is as it was
C17_WitnessKept ==
    /\ Resolved
    /\ gameMode # Test
    /\ LandingSquare.type = Runs
    /\ LandingSquare.value = 4
    /\ last.threw
    /\ players[Mover].turnsRemaining = Before.players[Mover].turnsRemaining

(***************************************************************************)
(* C19  Movement path.  For every start position p in 0..47 and movement   *)
(* m in 1..6, getMovementPath returns a sequence of length m whose i-th    *)
(* element is (p + i) mod 48 for the clockwise direction and (p - i) mod   *)
(* 48 for the anti-clockwise direction: consecutive elements are one step  *)
(* apart on the ring, every element lies in 0..47, and the last element    *)
(* is (p + m) mod 48 (clockwise) or (p - m) mod 48 (anti-clockwise).       *)
(***************************************************************************)
C19_MovementPath ==
    pathCall # NoPath =>
        LET p == pathCall.startPosition
            m == pathCall.diceResult.movement
            r == pathCall.result
            s == IF pathCall.diceResult.direction = Clockwise THEN 1 ELSE -1
        IN  /\ Len(r) = m
            /\ \A i \in 1..m : r[i] = (p + s * i + 48) % 48
            /\ \A i \in 1..m : r[i] \in 0..47
            /\ r[1] = (p + s + 48) % 48
            /\ \A i \in 1..(m - 1) : r[i + 1] = (r[i] + s + 48) % 48
            /\ r[m] = (p + s * m + 48) % 48

\* An anti-clockwise path of six squares that wraps around the ring: from
\* square 2 to square 44
C19_Witness ==
    /\ pathCall # NoPath
    /\ pathCall.startPosition = 2
    /\ pathCall.diceResult = [movement |-> 6, direction |-> AntiClockwise]
    /\ pathCall.result = << 1, 0, 47, 46, 45, 44 >>

\* What the round trip has to preserve: the players (id, color, home base,
\* score, wickets, turnsRemaining, isAllOut, both tokens), the current
\* player, the game-over flag, the mode and the settings
Observable(g) ==
    [ players |-> g.players, currentPlayerIndex |-> g.currentPlayerIndex,
      isGameOver |-> g.isGameOver, gameMode |-> g.gameMode, settings |-> g.settings ]

(***************************************************************************)
(* C18  Serialization round-trip.  For every reachable game g, the game    *)
(* g2 = Game.fromJSON(g.toJSON()) has the same players, currentPlayerIndex,*)
(* isGameOver, mode and settings as g, and applying the same playTurn      *)
(* calls to g2 as to g yields identical scores, wickets, token positions,  *)
(* levels, currentPlayerIndex and isGameOver.                              *)
(***************************************************************************)
C18_RoundTrip ==
    /\ Observable(fromJSON(toJSON(Game))) = Observable(Game)
    /\ (copy # NoCopy /\ copy[1].calls = copy[1].copyCalls)
          => Observable(copy[1].g) = Observable(Game)

\* The same playTurn was applied to a game and to its deserialized copy
C18_Witness ==
    /\ copy # NoCopy
    /\ copy[1].calls # <<>>
    /\ copy[1].calls = copy[1].copyCalls
    /\ last.op = "playTurn"
    /\ Resolved

\* The round trip through stored JSON text (no shared arrays) is exact
C18_StoredRoundTrip ==
    /\ Observable(fromJSON(toJSON(Game))) = Observable(Game)
    /\ (copy # NoCopy /\ ~copy[1].shared /\ copy[1].calls = copy[1].copyCalls)
          => Observable(copy[1].g) = Observable(Game)

(***************************************************************************)
(* C20  playTurn on a game that is over is a no-op: for every token id     *)
(* and dice result no player's score, wickets, turnsRemaining, isAllOut,   *)
(* token position or token level changes, and currentPlayerIndex and       *)
(* isGameOver are unchanged.                                               *)
(***************************************************************************)
C20_NoOpWhenOver ==
    (last.op = "playTurn" /\ Before.isGameOver) =>
        /\ players = Before.players
        /\ currentPlayerIndex = Before.currentPlayerIndex
        /\ isGameOver = Before.isGameOver

\* playTurn was called on a game won by the chase, whose winner still had
\* turns and tokens to move, and left it as it was
C20_Witness ==
    /\ last.op = "playTurn"
    /\ Before.isGameOver
    /\ \E i \in 1..PlayerCount :
          /\ ~Before.players[i].isAllOut
          /\ Before.players[i].turnsRemaining # Turns(0)
    /\ Game = Before

(***************************************************************************)
(* C21  All-out skip.  When the game is not over and the current player    *)
(* is all-out, playTurn (whatever the token id and the dice result) only   *)
(* moves currentPlayerIndex to (currentPlayerIndex + 1) mod playerCount:   *)
(* no token, score, wickets or turnsRemaining of any player changes and    *)
(* isGameOver keeps its value.                                             *)
(***************************************************************************)
C21_AllOutSkip ==
    (/\ last.op = "playTurn"
     /\ ~Before.isGameOver
     /\ getCurrentPlayer(Before).isAllOut) =>
        /\ players = Before.players
        /\ currentPlayerIndex = (Before.currentPlayerIndex + 1) % PlayerCount
        /\ isGameOver = Before.isGameOver

\* The turn of an all-out player that still had a token away from its base
\* and turns left was skipped; the next player is not all-out
C21_Witness ==
    /\ last.op = "playTurn"
    /\ ~Before.isGameOver
    /\ getCurrentPlayer(Before).isAllOut
    /\ getCurrentPlayer(Before).turnsRemaining # Turns(0)
    /\ \E k \in 1..2 : getCurrentPlayer(Before).tokens[k].positionIndex
                          # getCurrentPlayer(Before).homeBaseIndex
    /\ currentPlayerIndex = (Before.currentPlayerIndex + 1) % PlayerCount
    /\ currentPlayerIndex # Before.currentPlayerIndex
    /\ ~getCurrentPlayer(Game).isAllOut
    /\ players = Before.players

(***************************************************************************)
(* C22  playTurn called with a token id the current player does not own    *)
(* fails with an error and leaves the whole game as it was: no token,      *)
(* score, wickets, turnsRemaining, currentPlayerIndex or isGameOver        *)
(* changes, and the call is never silently ignored or taken as a skipped   *)
(* turn.                                                                   *)
(***************************************************************************)
C22_UnownedTokenFails ==
    (last.op = "playTurn" /\ last.tokenId \notin TokenIds) =>
        /\ last.threw
        /\ players = Before.players
        /\ currentPlayerIndex = Before.currentPlayerIndex
        /\ isGameOver = Before.isGameOver

\* playTurn was called with an unowned token id while the current player
\* was all-out: nothing was thrown and the turn went to the next player
C22_Witness ==
    /\ last.op = "playTurn"
    /\ last.tokenId \notin TokenIds
    /\ ~Before.isGameOver
    /\ getCurrentPlayer(Before).isAllOut
    /\ ~last.threw
    /\ currentPlayerIndex # Before.currentPlayerIndex

\* playTurn was called with an unowned token id on a game that was over:
\* nothing was thrown, the call was ignored
C22_WitnessOver ==
    /\ last.op = "playTurn"
    /\ last.tokenId \notin TokenIds
    /\ Before.isGameOver
    /\ ~last.threw
    /\ Game = Before

\* The part of C22 the engine keeps: on a running game whose current player
\* is not all-out, playTurn with an unowned token id throws before it has
\* changed anything
C22_ThrowsWhenPlayable ==
    (/\ last.op = "playTurn"
     /\ last.tokenId \notin TokenIds
     /\ ~Before.isGameOver
     /\ ~getCurrentPlayer(Before).isAllOut) =>
        /\ last.threw
        /\ Game = Before

C26_NoLapWithRolledDice ==
    (Resolved /\ last.diceResult \in rollDice(settings) /\ OldPosition = HomeBase)
        => ~CrossesHome

\* The game after n consecutive calls of advanceToNextPlayer on game g
RECURSIVE AdvanceTimes(_, _)
AdvanceTimes(g, n) == IF n = 0 THEN g ELSE AdvanceTimes(advanceToNextPlayer(g), n - 1)

(***************************************************************************)
(* C28  advanceToNextPlayer is a pure round robin: it sets                 *)
(* currentPlayerIndex to (currentPlayerIndex + 1) mod playerCount and      *)
(* changes nothing else (it passes over no all-out player and no player    *)
(* without turns, decrements no counter, does not test for the end of the  *)
(* game); playerCount consecutive calls bring currentPlayerIndex back to   *)
(* its value, and currentPlayerIndex always lies in 0..playerCount-1.      *)
(***************************************************************************)
C28_RoundRobin ==
    /\ currentPlayerIndex \in 0..(PlayerCount - 1)
    /\ (last.op = "advanceToNextPlayer") =>
          /\ currentPlayerIndex = (Before.currentPlayerIndex + 1) % PlayerCount
          /\ players = Before.players
          /\ isGameOver = Before.isGameOver
          /\ AdvanceTimes(Before, PlayerCount) = Before
          /\ \A n \in 1..(PlayerCount - 1) :
                AdvanceTimes(Before, n).currentPlayerIndex # Before.currentPlayerIndex

\* advanceToNextPlayer was called on the last player of a running game and
\* went back to the first one
C28_Witness ==
    /\ last.op = "advanceToNextPlayer"
    /\ ~isGameOver
    /\ Before.currentPlayerIndex = PlayerCount - 1
    /\ currentPlayerIndex = 0
    /\ players = Before.players

\* advanceToNextPlayer made an all-out player the current player of a
\* running game
C28_WitnessAllOut ==
    /\ last.op = "advanceToNextPlayer"
    /\ ~isGameOver
    /\ ~getCurrentPlayer(Before).isAllOut
    /\ getCurrentPlayer(Game).isAllOut
    /\ currentPlayerIndex = (Before.currentPlayerIndex + 1) % PlayerCount

\* advanceToNextPlayer was called in a game of three players or more and
\* went to the next one
C28_WitnessThree ==
    /\ last.op = "advanceToNextPlayer"
    /\ PlayerCount >= 3
    /\ currentPlayerIndex = Before.currentPlayerIndex + 1
    /\ currentPlayerIndex = 2

(***************************************************************************)
(* C29  rollDice returns a movement in 1..6 and a direction; the direction *)
(* is Clockwise whenever allowAntiClockwise is false; the call changes     *)
(* nothing in the game.                                                    *)
(***************************************************************************)
C29_RollDice ==
    (last.op = "rollDice") =>
        /\ last.diceResult.movement \in 1..6
        /\ last.diceResult.direction \in Direction
        /\ ~settings.allowAntiClockwise => last.diceResult.direction = Clockwise
        /\ Game = Before

\* rollDice returned a six on a game that allows no anti-clockwise move
C29_Witness ==
    /\ last.op = "rollDice"
    /\ ~settings.allowAntiClockwise
    /\ last.diceResult = [movement |-> 6, direction |-> Clockwise]
    /\ Game = Before

\* rollDice returned an anti-clockwise one on a game that allows it
C29_WitnessAntiClockwise ==
    /\ last.op = "rollDice"
    /\ settings.allowAntiClockwise
    /\ last.diceResult = [movement |-> 1, direction |-> AntiClockwise]

\* Every movement of 1..6 is returned, in each direction the settings allow
C29_EveryFace ==
    \A anti \in BOOLEAN :
        rollDice(St(anti, "jackpot", FALSE))
            = { [movement |-> m, direction |-> d] :
                   m \in 1..6,
                   d \in IF anti THEN {AntiClockwise, Clockwise} ELSE {Clockwise} }

(***************************************************************************)
(* C30  Return path.  For every start position s and home base h in 0..47  *)
(* getReturnPath(s, h) is a sequence of single steps in one direction that *)
(* ends on h, empty when s = h.  When allowAntiClockwise is false it is    *)
(* the anti-clockwise path of length (s - h) mod 48 whatever the distance; *)
(* when it is true it is the shorter of the two directions, of length      *)
(* min((h - s) mod 48, (s - h) mod 48), clockwise when both are 24.  The   *)
(* call changes nothing in the game.                                       *)
(***************************************************************************)
C30_ReturnPath ==
    pathCall # NoPath =>
        LET s == pathCall.startPosition
            h == pathCall.homeBaseIndex
            r == pathCall.result
            n == Len(r)
            cwd == (h - s + 48) % 48
            acwd == (s - h + 48) % 48
            Runs1Way(d) == \A i \in 1..n : r[i] = (s + d * i + 48 * 48) % 48
        IN  /\ (s = h) <=> (r = <<>>)
            /\ n > 0 => r[n] = h
            /\ Runs1Way(1) \/ Runs1Way(-1)
            /\ ~settings.allowAntiClockwise => (n = acwd /\ Runs1Way(-1))
            /\ settings.allowAntiClockwise =>
                  /\ n = IF cwd <= acwd THEN cwd ELSE acwd
                  /\ cwd <= acwd => Runs1Way(1)
                  /\ cwd > acwd => Runs1Way(-1)
            /\ Game = Before
            /\ last.op = "init"

\* With anti-clockwise moves disallowed the token on square 5 goes back to
\* base 12 the long way round, 41 squares anti-clockwise
C30_Witness ==
    /\ pathCall # NoPath
    /\ ~settings.allowAntiClockwise
    /\ pathCall.startPosition = 5
    /\ pathCall.homeBaseIndex = 12
    /\ Len(pathCall.result) = 41
    /\ pathCall.result[1] = 4
    /\ pathCall.result[6] = 47
    /\ pathCall.result[41] = 12

\* With anti-clockwise moves allowed and the base 24 squares away in both
\* directions the path runs clockwise
C30_WitnessTie ==
    /\ pathCall # NoPath
    /\ settings.allowAntiClockwise
    /\ pathCall.startPosition = 30
    /\ pathCall.homeBaseIndex = 6
    /\ Len(pathCall.result) = 24
    /\ pathCall.result[1] = 31
    /\ pathCall.result[24] = 6

\* With anti-clockwise moves allowed the token on square 14 goes back two
\* squares to base 12
C30_WitnessShort ==
    /\ pathCall # NoPath
    /\ settings.allowAntiClockwise
    /\ pathCall.startPosition = 14
    /\ pathCall.homeBaseIndex = 12
    /\ pathCall.result = << 13, 12 >>

\* The lap detection of the last move raised the level of the moved token
LevelledUp ==
    AfterMove.players[Mover].tokens[last.tokenId].level = OldToken.level + 1

\* Net number of squares (clockwise positive) the moved token had travelled
\* since it last stood on its base when the last move first put it on the
\* base again
TripToBase ==
    LET onBase == StepsOn(OldPosition, last.diceResult, HomeBase)
        first == CHOOSE j \in onBase : \A i \in onBase : j <= i
    IN  last.tripBefore[Mover][last.tokenId] + Sign(last.diceResult) * first

(***************************************************************************)
(* C27  A level-up is a completed lap.  Over any sequence of turns, with   *)
(* clockwise and (when allowAntiClockwise is set) anti-clockwise dice, a   *)
(* move raises the level of a token only when the token has gone once      *)
(* round the 48 squares of the ring back through its owner's base since    *)
(* it last left the base; leaving the base and stepping back onto it       *)
(* without a full circuit never raises the level.                          *)
(***************************************************************************)
C27_LevelUpIsLap ==
    (Resolved /\ LevelledUp) =>
        (TripToBase = BOARD_SIZE \/ TripToBase = -BOARD_SIZE)

\* A token left its base by one anti-clockwise step and came back by one
\* clockwise step: its level was raised
C27_Witness ==
    /\ Resolved
    /\ settings.allowAntiClockwise
    /\ last.tripBefore[Mover][last.tokenId] = -1
    /\ last.diceResult = [movement |-> 1, direction |-> Clockwise]
    /\ Landing = HomeBase
    /\ TripToBase = 0
    /\ NewToken.level = OldToken.level + 1

\* A token that went round the ring clockwise crossed its base: its level
\* was raised
C27_WitnessLap ==
    /\ Resolved
    /\ LevelledUp
    /\ TripToBase = BOARD_SIZE
    /\ NewToken.level = OldToken.level + 1

\* The same call again: the token, which the first call left two squares
\* before its base, is levelled up once more
C27_WitnessAgain ==
    /\ Resolved
    /\ LevelledUp
    /\ TripToBase = BOARD_SIZE
    /\ OldToken.level = 2
    /\ NewToken.level = 3
    /\ NewToken.positionIndex = OldPosition

\* In the games that allow no anti-clockwise move a level is raised only by
\* a move that takes the token over its base at the end of a clockwise
\* circuit
C27_ClockwiseLevelUpIsLap ==
    (Resolved /\ LevelledUp /\ ~settings.allowAntiClockwise) =>
        TripToBase = BOARD_SIZE

\* Exactly one player is not all-out, the game goes on and that player has
\* not passed the best score of the all-out players
LoneSurvivorBehind ==
    /\ ~isGameOver
    /\ LoneSurvivor
    /\ SurvivorScore <= BestAllOutScore

(***************************************************************************)
(* C25  Lone-survivor termination.  In every mode, once exactly one player *)
(* remains not all-out and its score has not exceeded the best all-out     *)
(* score, every continued sequence of turns eventually reaches             *)
(* isGameOver = true (by the early victory or by the hard stop).           *)
(***************************************************************************)
C25_LoneSurvivorTermination == LoneSurvivorBehind ~> isGameOver

(***************************************************************************)
(* C25, in the modes with a turn limit: in a T20 or 50-50 game played by   *)
(* playTurn, once exactly one player remains not all-out and its score has *)
(* not exceeded the best all-out score, every continued sequence of turns  *)
(* eventually reaches isGameOver = true.                                   *)
(***************************************************************************)
C25_TurnLimitedTermination ==
    (LoneSurvivorBehind /\ gameMode # Test) ~> isGameOver

\* The survivor of a T20 game lost its tenth wicket on a Wicket square
\* while behind: every player is all-out, the survivor has turns left and
\* the game is not over
C25_Witness ==
    /\ gameMode = T20
    /\ \A i \in 1..PlayerCount : players[i].isAllOut
    /\ \E i \in 1..PlayerCount : players[i].turnsRemaining # Turns(0)
    /\ \A i, j \in 1..PlayerCount : players[i].score = players[j].score
    /\ ~isGameOver

\* A turn-limited game ended by the early victory of the survivor
C25_WitnessChase ==
    /\ isGameOver
    /\ gameMode # Test
    /\ LoneSurvivor
    /\ SurvivorScore > BestAllOutScore
    /\ players[CHOOSE i \in Survivors : TRUE].turnsRemaining # Turns(0)

\* Level of the moved token when the square event is resolved, as the rules
\* state it: the lap step first, then the levels stolen from the captured
\* tokens
RewardLevel ==
    IF settings.stealLevelOnKill THEN Max({LapLevel} \cup CapturedLevels) ELSE LapLevel

(***************************************************************************)
(* C32  Order of effects inside one move.  The level used by the Runs or   *)
(* Extra reward of the landing square is the moving token's level after    *)
(* the lap level-up of that same move and after any level stolen from the  *)
(* tokens captured in that same move: a move that lands on a Runs square   *)
(* of value v with resulting level L scores v x L (kill bonuses apart), on *)
(* an Extra square it scores L.                                            *)
(***************************************************************************)
C32_OrderOfEffects ==
    Resolved =>
        /\ LandingSquare.type = Runs =>
              /\ ScoreGained - BonusGained = LandingSquare.value * RewardLevel
              /\ NewToken.level = RewardLevel
        /\ LandingSquare.type = Extra =>
              /\ ScoreGained = RewardLevel
              /\ NewToken.level = RewardLevel

\* A move crossed the home base towards a Runs square: the call threw after
\* the level was raised, the token was not placed and nothing was scored
C32_Witness ==
    /\ Resolved
    /\ LandingSquare.type = Runs
    /\ CrossesHome
    /\ OldPosition # HomeBase
    /\ RewardLevel = OldToken.level + 1
    /\ last.threw
    /\ NewToken.level = RewardLevel
    /\ NewToken.positionIndex = OldPosition
    /\ ScoreGained = 0

\* A token landed on an exposed token of a higher level on a Runs square
\* with level stealing enabled: the call threw before the level was stolen
\* and nothing was scored
C32_WitnessSteal ==
    /\ Resolved
    /\ LandingSquare.type = Runs
    /\ settings.stealLevelOnKill
    /\ RewardLevel > LapLevel
    /\ last.threw
    /\ NewToken.level = LapLevel
    /\ ScoreGained = 0

\* Turns remaining, summed over the players of a turn-limited game
RECURSIVE TurnsSumUpTo(_, _)
TurnsSumUpTo(g, i) ==
    IF i = 0 THEN 0 ELSE TurnsLeft(g.players[i]) + TurnsSumUpTo(g, i - 1)

TurnsSum(g) == TurnsSumUpTo(g, Len(g.players))

\* playTurn(tokenId) has taken game `before` to game `after` by a
\* turn-ending move: a move was resolved and the turn went to the next
\* player
EndsTurn(before, after, tokenId) ==
    /\ ~before.isGameOver
    /\ ~getCurrentPlayer(before).isAllOut
    /\ FindToken(getCurrentPlayer(before), tokenId) # 0
    /\ after.currentPlayerIndex # before.currentPlayerIndex

\* Number of turn-ending moves among the playTurn calls ms made on game g
RECURSIVE EndingMoves(_, _)
EndingMoves(g, ms) ==
    IF ms = <<>> THEN 0
    ELSE LET next == playTurn(g, Head(ms).tokenId, Head(ms).diceResult)
         IN  (IF EndsTurn(g, next, Head(ms).tokenId) THEN 1 ELSE 0)
                + EndingMoves(next, Tail(ms))

\* In the turn-limited games the model starts from, the turn-ending moves
\* made since the game was constructed and the turns remaining add up to
\* n x T
StartsCounted ==
    \A sc \in Scenarios :
        sc.mode # Test =>
            EndingMoves(NewGame(sc.mode, sc.colors, sc.settings, Shared), sc.moves)
                + TurnsSum(GameOf(sc, Shared))
              = Len(sc.colors) * getInitialTurnsForMode(sc.mode)[1]

(***************************************************************************)
(* C33  Bounded length of turn-limited games.  In T20 and 50-50 mode with  *)
(* n players and T initial turns each, from a new game and with playTurn   *)
(* alone, isGameOver is true no later than the (n x T)-th turn-ending      *)
(* move: the sum of turnsRemaining over the players starts at n x T,       *)
(* falls by one with every turn-ending move and is left alone by every     *)
(* other call, and the game is over when it reaches 0.  A player who is    *)
(* not all-out is never the current player with turnsRemaining = 0 while   *)
(* the game is not over.                                                   *)
(***************************************************************************)
C33_BoundedLength ==
    gameMode # Test =>
        /\ StartsCounted
        /\ TurnsSum(NewGame(gameMode, <<Blue, Yellow, Green>>, settings, engine))
              = 3 * InitialTurns[1]
        /\ TurnsSum(Game) \in 0..(PlayerCount * InitialTurns[1])
        /\ last.op = "playTurn" =>
              TurnsSum(Game) = TurnsSum(Before) - (IF TurnEndingMove THEN 1 ELSE 0)
        /\ TurnsSum(Game) = 0 => isGameOver
        /\ (~isGameOver /\ ~getCurrentPlayer(Game).isAllOut)
              => getCurrentPlayer(Game).turnsRemaining # Turns(0)

\* A move onto a Wicket square, turn-ending by the rules: the call threw,
\* the mover is still the current player and no turn was spent
C33_Witness ==
    /\ gameMode # Test
    /\ TurnEndingMove
    /\ LandingSquare.type = Wicket
    /\ last.threw
    /\ currentPlayerIndex = Before.currentPlayerIndex
    /\ TurnsSum(Game) = TurnsSum(Before)

\* The all-out player's turn was passed to a player who is not all-out and
\* has no turn left, and the game is not over
C33_WitnessLastTurn ==
    /\ gameMode # Test
    /\ last.op = "playTurn"
    /\ getCurrentPlayer(Before).isAllOut
    /\ ~isGameOver
    /\ ~getCurrentPlayer(Game).isAllOut
    /\ getCurrentPlayer(Game).turnsRemaining = Turns(0)

\* The game is over by early victory: the hard stop does not hold
EarlyVictory == isGameOver /\ ~HardStopHolds

(***************************************************************************)
(* C34  isGameOver is true only for a reason.  In every state reached      *)
(* from a new game, isGameOver implies that the hard-stop condition of    *)
(* the mode holds, or that exactly one player is not all-out and that     *)
(* player's score is strictly greater than the score of every all-out     *)
(* player: on an early victory the survivor is the unique highest scorer, *)
(* the player printGameSummary names as winner.                           *)
(***************************************************************************)
C34_GameOverForAReason ==
    isGameOver =>
        \/ HardStopHolds
        \/ /\ Cardinality(Survivors) = 1
           /\ \A i \in AllOutPlayers : SurvivorScore > players[i].score
           /\ printGameSummaryWinner(Game) \in Survivors

\* The survivor passed the score of the all-out player with turns left and
\* wickets in hand: the game is over and the survivor is the winner
C34_Witness ==
    /\ Resolved
    /\ ~Before.isGameOver
    /\ EarlyVictory
    /\ Cardinality(Survivors) = 1
    /\ AllOutPlayers # {}
    /\ SurvivorScore > BestAllOutScore
    /\ BestAllOutScore > 0
    /\ printGameSummaryWinner(Game) = Mover

\* A game over by the hard stop
C34_WitnessHardStop ==
    /\ Resolved
    /\ ~Before.isGameOver
    /\ isGameOver
    /\ HardStopHolds

\* A step that is a playTurn call on the copy
CallOnCopy == copy # NoCopy /\ copy' # NoCopy /\ copy'[1].copyCalls # copy[1].copyCalls

\* A step that is a playTurn call on the original game, a copy having been made
CallOnOriginal == copy # NoCopy /\ copy' # NoCopy /\ copy'[1].calls # copy[1].calls

(***************************************************************************)
(* C35  Independence of a deserialized copy.  After                        *)
(* g2 = Game.fromJSON(g.toJSON()), operations on g2 never change any part  *)
(* of g's state (in particular g's token positions and levels) and         *)
(* operations on g never change g2: the two games share no mutable state.  *)
(***************************************************************************)
C35_CopyIndependent ==
    [][/\ CallOnCopy => players' = players
       /\ CallOnOriginal => copy'[1].g = copy[1].g]_vars

\* Nothing has been called on the game since the copy was made, playTurn
\* has been called on the copy, and a token of the game has moved
C35_Witness ==
    /\ copy # NoCopy
    /\ copy[1].shared
    /\ copy[1].calls = <<>>
    /\ copy[1].copyCalls # <<>>
    /\ last.op = "init"
    /\ \E i \in 1..PlayerCount : players[i].tokens # Before.players[i].tokens

\* A copy made from the stored JSON text shares nothing with the game
C35_StoredCopyIndependent ==
    [][/\ (CallOnCopy /\ ~copy[1].shared) => players' = players
       /\ (CallOnOriginal /\ ~copy[1].shared) => copy'[1].g = copy[1].g]_vars

\* What the two games share is the tokens arrays and nothing else: scores,
\* wickets, turns and the turn order of one game are never changed by a
\* call on the other
C35_OnlyTokensShared ==
    [][/\ CallOnCopy =>
             /\ Len(players') = Len(players)
             /\ \A i \in 1..Len(players) :
                   [players'[i] EXCEPT !.tokens = players[i].tokens] = players[i]
       /\ CallOnOriginal =>
             /\ copy'[1].g.currentPlayerIndex = copy[1].g.currentPlayerIndex
             /\ copy'[1].g.isGameOver = copy[1].g.isGameOver
             /\ \A i \in 1..Len(copy[1].g.players) :
                   [copy'[1].g.players[i] EXCEPT !.tokens = copy[1].g.players[i].tokens]
                      = copy[1].g.players[i]]_vars

\* The tokens of the game other than the one the last move moved
OtherTokens ==
    { <<i, k>> \in (1..PlayerCount) \X (1..2) : <<i, k>> # <<Mover, last.tokenId>> }

\* Token k of player i after its return to the base
SentHome(i, k) ==
    [ id |-> Before.players[i].tokens[k].id,
      positionIndex |-> Before.players[i].homeBaseIndex,
      level |-> 1 ]

(***************************************************************************)
(* C39  Token frame of a move.  A resolved playTurn changes the position   *)
(* or level of a token other than the moved one only if that token         *)
(* belongs to another player and stood on the landing square, which is     *)
(* not a SafeZone, before the move; it then ends on its owner's home base  *)
(* with level 1.  The mover's other token and every opposing token not on  *)
(* the landing square keep their position and level.                       *)
(***************************************************************************)
C39_TokenFrame ==
    Resolved =>
        \A t \in OtherTokens :
            LET i == t[1]
                k == t[2]
                old == Before.players[i].tokens[k]
                new == players[i].tokens[k]
            IN  /\ new # old =>
                      /\ i # Mover
                      /\ old.positionIndex = Landing
                      /\ LandingSquare.type # SafeZone
                      /\ new = SentHome(i, k)
                /\ (i = Mover \/ old.positionIndex # Landing) => new = old

\* A move captured a token of level 2 or more while the victim's other
\* token stood elsewhere off its base: the captured token is on its base
\* with level 1, the other one has not moved
C39_Witness ==
    /\ Resolved
    /\ \E v \in Others : \E k \in 1..2 :
          /\ Before.players[v].tokens[k].positionIndex = Landing
          /\ Before.players[v].tokens[k].level >= 2
          /\ players[v].tokens[k] = SentHome(v, k)
          /\ Before.players[v].tokens[3 - k].positionIndex
                \notin {Landing, Before.players[v].homeBaseIndex}
          /\ players[v].tokens[3 - k] = Before.players[v].tokens[3 - k]

\* The mover landed on the square of its own other token: that token stays
C39_WitnessOwnToken ==
    /\ Resolved
    /\ LandingSquare.type # SafeZone
    /\ Before.players[Mover].tokens[3 - last.tokenId].positionIndex = Landing
    /\ players[Mover].tokens[3 - last.tokenId]
          = Before.players[Mover].tokens[3 - last.tokenId]

\* The mover landed on a fortress: both tokens of the fortress stay
C39_WitnessFortress ==
    /\ Resolved
    /\ settings.killRule = "fortress"
    /\ \E v \in Others :
          /\ \A k \in 1..2 : Before.players[v].tokens[k].positionIndex = Landing
          /\ players[v].tokens = Before.players[v].tokens

\* The shared engine landed a token on an exposed opposing token: the call
\* threw before the token was sent home and no other token has changed
C39_WitnessShared ==
    /\ Resolved
    /\ engine = Shared
    /\ LandingSquare.type # SafeZone
    /\ \E v \in Others : Exposed(v) # {}
    /\ last.threw
    /\ NewToken.positionIndex = Landing
    /\ \A t \in OtherTokens : players[t[1]].tokens[t[2]] = Before.players[t[1]].tokens[t[2]]

\* Player i has the score and the turnsRemaining it had before the last call
SameScoreAndTurns(i) ==
    /\ players[i].score = Before.players[i].score
    /\ players[i].turnsRemaining = Before.players[i].turnsRemaining

(***************************************************************************)
(* C40  Score frame of a move.  playTurn changes score and turnsRemaining  *)
(* only for the player who was the current player when it was called: a    *)
(* captured player loses no score and no turns.  No score ever decreases,  *)
(* and the score and turnsRemaining of a player who is all-out are never   *)
(* changed by a later call.                                                *)
(***************************************************************************)
C40_ScoreFrame ==
    last.op \in {"playTurn", "advanceToNextPlayer"} =>
        \A i \in 1..PlayerCount :
            /\ i # Mover => SameScoreAndTurns(i)
            /\ players[i].score >= Before.players[i].score
            /\ Before.players[i].isAllOut => SameScoreAndTurns(i)

\* A move captured a token on a Runs square: the mover's score grew by the
\* kill bonus and its turn was spent, the captured player has one more
\* wicket and the score and turns it had
C40_Witness ==
    /\ Resolved
    /\ LandingSquare.type = Runs
    /\ gameMode = T20
    /\ ScoreGained > 0
    /\ TurnsLeft(players[Mover]) = TurnsLeft(Before.players[Mover]) - 1
    /\ \E v \in Others :
          /\ players[v].wickets = Before.players[v].wickets + 1
          /\ Before.players[v].score > 0
          /\ SameScoreAndTurns(v)

\* playTurn was called while the current player was all-out: the turn
\* passed on and that player's score and turns are what they were
C40_WitnessAllOut ==
    /\ last.op = "playTurn"
    /\ ~Before.isGameOver
    /\ Before.players[Mover].isAllOut
    /\ gameMode = T20
    /\ currentPlayerIndex # Before.currentPlayerIndex
    /\ SameScoreAndTurns(Mover)

\* A player was made all-out by a capture and keeps its score and turns
C40_WitnessCapturedOut ==
    /\ Resolved
    /\ \E v \in Others :
          /\ ~Before.players[v].isAllOut
          /\ players[v].isAllOut
          /\ SameScoreAndTurns(v)

\* The shared engine scored a Runs square of value above 3 for the mover:
\* the call threw with the turn unspent, and the other players have the
\* score and turns they had
C40_WitnessShared ==
    /\ Resolved
    /\ engine = Shared
    /\ gameMode = T20
    /\ LandingSquare.type = Runs
    /\ last.threw
    /\ ScoreGained > 3
    /\ players[Mover].turnsRemaining = Before.players[Mover].turnsRemaining
    /\ \A v \in Others : Before.players[v].score > 0 /\ SameScoreAndTurns(v)

====
